---- MODULE Spec2Model ----
(***************************************************************************)
(* Model of the compact block store (common/cache.go, BlockCache): the two *)
(* db files as byte sequences, the in-memory offset index, the heights,    *)
(* latestHash, the recoveries started by Get, and the unlocked Reset.      *)
(***************************************************************************)
EXTENDS Integers, Sequences, FiniteSets, TLC

\* ------------------------------------------------------------------ bounds
\* Heights used as inputs are 0..MaxHeight.
MaxHeight == 2
\* Block hashes are the byte strings of length 1..MaxHashLen over 1..MaxByte.
MaxHashLen == 2
MaxByte == 1
\* Start heights (NewBlockCache, Reset) are 0..MaxStart.
MaxStart == 1
\* Number of blocks stored by Add over the life of the process.
MaxAdds == 3
\* Number of disturbances in one run: a damaged byte of the blocks file, or a
\* call of another thread that runs while a Reset is under way (a recovery
\* goroutine may run at any time).
MaxDisturb == 1
\* Number of recovery goroutines that may wait for the exclusive lock.
MaxPending == 1
\* The code rolls back 10000 heights (cache.go:309, cache.go:504); the model
\* scales the distance down so that height - distance can lie above firstBlock.
RollbackDistance == 1

\* ------------------------------------------------------- program constants
ChecksumLen == 8
LengthEntryLen == 4
KeyHeight == 16
KeyHash == 26
FnvOffset == 37
FnvPrime == 179

Heights == 0..MaxHeight
Bytes == 1..MaxByte

\* ------------------------------------------------------------ byte helpers
RECURSIVE SeqsOfLen(_, _)
SeqsOfLen(S, n) ==
    IF n = 0 THEN {<<>>}
    ELSE {<<x>> \o s : x \in S, s \in SeqsOfLen(S, n - 1)}

Hashes == UNION {SeqsOfLen(Bytes, n) : n \in 1..MaxHashLen}

Blocks == [Height : Heights, Hash : Hashes]

RECURSIVE Zeros(_)
Zeros(n) == IF n <= 0 THEN <<>> ELSE <<0>> \o Zeros(n - 1)

RECURSIVE XorBits(_, _, _)
XorBits(a, b, n) ==
    IF n = 0 THEN 0
    ELSE ((a + b) % 2) + 2 * XorBits(a \div 2, b \div 2, n - 1)

XorTab == [a \in 0..255 |-> [b \in 0..31 |-> XorBits(a, b, 8)]]

Xor(a, b) == IF b \in 0..31 THEN XorTab[a][b] ELSE XorBits(a, b, 8)

\* binary.LittleEndian.PutUint64 / PutUint32 for values below 256
LittleEndian(v, n) == <<v % 256>> \o Zeros(n - 1)

\* hash/fnv New64a, Write, Sum: the low byte of the 64-bit FNV-1a value
\* (xor and multiplication modulo 2^64 keep the low byte independent of the
\* higher ones); Sum is big-endian, the seven high bytes are kept as zero.
RECURSIVE Fnv1a(_, _)
Fnv1a(h, bs) ==
    IF bs = <<>> THEN h
    ELSE Fnv1a((Xor(h, Head(bs)) * FnvPrime) % 256, Tail(bs))

checksum(height, b) ==
    Zeros(ChecksumLen - 1) \o <<Fnv1a(Fnv1a(FnvOffset, LittleEndian(height, 8)), b)>>

\* proto.Marshal of a CompactBlock: field 2 (height, varint) and field 3
\* (hash, length-delimited), in field order, zero values omitted.
Marshal(block) ==
    (IF block.Height # 0 THEN <<KeyHeight, block.Height>> ELSE <<>>)
    \o (IF Len(block.Hash) > 0 THEN <<KeyHash, Len(block.Hash)>> \o block.Hash ELSE <<>>)

\* proto.Unmarshal: parse key by key; a later occurrence of a field replaces
\* an earlier one; a truncated field or a key that is no field of the message
\* in its wire type is an error.
RECURSIVE Parse(_, _, _)
Parse(b, i, block) ==
    IF i > Len(b) THEN [err |-> FALSE, block |-> block]
    ELSE IF b[i] = KeyHeight
      THEN IF i + 1 > Len(b) \/ b[i + 1] >= 128
             THEN [err |-> TRUE, block |-> block]
             ELSE Parse(b, i + 2, [block EXCEPT !.Height = b[i + 1]])
    ELSE IF b[i] = KeyHash
      THEN IF i + 1 > Len(b) \/ b[i + 1] >= 128 \/ i + 1 + b[i + 1] > Len(b)
             THEN [err |-> TRUE, block |-> block]
             ELSE Parse(b, i + 2 + b[i + 1],
                        [block EXCEPT !.Hash = SubSeq(b, i + 2, i + 1 + b[i + 1])])
    ELSE [err |-> TRUE, block |-> block]

Unmarshal(b) == Parse(b, 1, [Height |-> 0, Hash |-> <<>>])


\* ------------------------------------------------------------ Go primitives
\* A nil []byte (latestHash before any block is known).
Nil == <<-1>>

\* copy(dst, src): the first min(len(dst), len(src)) elements are copied.
Copy(dst, src) ==
    [i \in 1..Len(dst) |-> IF i <= Len(src) THEN src[i] ELSE dst[i]]

\* os.File.Truncate: shrinks the file, or extends it with zero bytes.
Truncate(f, size) ==
    IF size <= Len(f) THEN SubSeq(f, 1, size) ELSE f \o Zeros(size - Len(f))

\* c.starts[:n] for n up to the slice's length. A larger n arises only after
\* an unlocked Reset has raced with another call; Go then panics or, within
\* the capacity, re-exposes old elements of the backing array: the model
\* stops the process there (fault "panic") and follows it no further.
Reslice(c, n) ==
    IF n < 0 \/ n > Len(c.starts)
      THEN [c EXCEPT !.fault = "panic"]
      ELSE [c EXCEPT !.starts = SubSeq(c.starts, 1, n)]

\* append(c.starts, v)
AppendStart(c, v) == [c EXCEPT !.starts = Append(c.starts, v)]

\* --------------------------------------------------------------- BlockCache
\* blockLength: the length of the block at the height, without the checksum.
blockLength(c, height) ==
    IF height < c.firstBlock \/ height >= c.nextBlock
      THEN [panic |-> FALSE, len |-> 0]
    ELSE LET index == height - c.firstBlock
         IN IF index + 2 > Len(c.starts)
              THEN [panic |-> TRUE, len |-> 0]
              ELSE [panic |-> FALSE,
                    len |-> c.starts[index + 2] - c.starts[index + 1] - ChecksumLen]

NoBlock == [Height |-> 0, Hash |-> <<>>]

\* readBlock that does not compare the decoded height with the height read.
readBlockAnyHeight(c, height) ==
    LET bl == blockLength(c, height)
        size == bl.len + ChecksumLen
        index == height - c.firstBlock
    IN IF bl.panic \/ size < 0 \/ index < 0 \/ index + 1 > Len(c.starts)
         THEN [tag |-> "panic", why |-> "index", block |-> NoBlock]
       ELSE LET offset == c.starts[index + 1]
            IN IF offset < 0 \/ offset + size > Len(c.blocksFile)
                 THEN [tag |-> "nil", why |-> "read", block |-> NoBlock]
               ELSE IF size < ChecksumLen
                 THEN [tag |-> "panic", why |-> "slice", block |-> NoBlock]
               ELSE LET diskcs == SubSeq(c.blocksFile, offset + 1, offset + ChecksumLen)
                        b == SubSeq(c.blocksFile, offset + ChecksumLen + 1, offset + size)
                        u == Unmarshal(b)
                    IN IF checksum(height, b) # diskcs
                         THEN [tag |-> "nil", why |-> "checksum", block |-> NoBlock]
                       ELSE IF u.err
                         THEN [tag |-> "nil", why |-> "unmarshal", block |-> NoBlock]
                       ELSE [tag |-> "ok", why |-> "", block |-> u.block]

\* readBlock: tag "ok" with the block, tag "nil" with the reason, or "panic".
readBlock(c, height) ==
    LET bl == blockLength(c, height)
        size == bl.len + ChecksumLen
        index == height - c.firstBlock
    IN IF bl.panic \/ size < 0 \/ index < 0 \/ index + 1 > Len(c.starts)
         THEN [tag |-> "panic", why |-> "index", block |-> NoBlock]
       ELSE LET offset == c.starts[index + 1]
            IN IF offset < 0 \/ offset + size > Len(c.blocksFile)
                 THEN [tag |-> "nil", why |-> "read", block |-> NoBlock]
               ELSE IF size < ChecksumLen
                 THEN [tag |-> "panic", why |-> "slice", block |-> NoBlock]
               ELSE LET diskcs == SubSeq(c.blocksFile, offset + 1, offset + ChecksumLen)
                        b == SubSeq(c.blocksFile, offset + ChecksumLen + 1, offset + size)
                        u == Unmarshal(b)
                    IN IF checksum(height, b) # diskcs
                         THEN [tag |-> "nil", why |-> "checksum", block |-> NoBlock]
                       ELSE IF u.err
                         THEN [tag |-> "nil", why |-> "unmarshal", block |-> NoBlock]
                       ELSE IF u.block.Height # height
                         THEN [tag |-> "nil", why |-> "height", block |-> NoBlock]
                       ELSE [tag |-> "ok", why |-> "", block |-> u.block]

RECURSIVE setDbFiles(_, _)
RECURSIVE setLatestHash(_)
RECURSIVE recoverFromCorruption(_, _)

\* setDbFiles: make the height the lowest one the cache does not hold.
setDbFiles(c, height) ==
    IF c.fault # "none" \/ height > c.nextBlock THEN c
    ELSE LET h == IF height < c.firstBlock THEN c.firstBlock ELSE height
             index == h - c.firstBlock
             c1 == [c EXCEPT !.lengthsFile = Truncate(@, index * LengthEntryLen)]
         IN IF index + 1 > Len(c1.starts)
              THEN [c1 EXCEPT !.fault = "panic"]
              ELSE LET c2 == [c1 EXCEPT !.blocksFile = Truncate(@, c1.starts[index + 1])]
                       c3 == Reslice(c2, index + 1)
                   IN setLatestHash([c3 EXCEPT !.nextBlock = h])

\* recoverFromCorruption: keep copies of both files (each call writes them
\* anew; savedFirst notes the height of their first record), then truncate.
recoverFromCorruption(c, height) ==
    setDbFiles([c EXCEPT !.savedLengths = c.lengthsFile,
                         !.savedBlocks = c.blocksFile,
                         !.savedFirst = c.firstBlock], height)

\* setLatestHash: latestHash becomes a copy of the last block's hash.
setLatestHash(c) ==
    LET c1 == [c EXCEPT !.latestHash = Nil]
    IN IF c1.fault # "none" \/ ~(c1.nextBlock > c1.firstBlock) THEN c1
       ELSE LET r == readBlock(c1, c1.nextBlock - 1)
            IN IF r.tag = "panic" THEN [c1 EXCEPT !.fault = "panic"]
               ELSE IF r.tag = "nil"
                 THEN recoverFromCorruption(c1, c1.nextBlock - RollbackDistance)
               ELSE [c1 EXCEPT !.latestHash = Copy(Zeros(Len(r.block.Hash)), r.block.Hash)]

\* Add that does not compare the block's own height with the height asked for.
AddAnyBlockHeight(c, height, block) ==
    IF height > c.nextBlock THEN [c |-> c, ret |-> "ignored"]
    ELSE IF height < c.firstBlock THEN [c |-> [c EXCEPT !.fault = "fatal"], ret |-> "fatal"]
    ELSE IF height < c.nextBlock THEN [c |-> [c EXCEPT !.fault = "fatal"], ret |-> "fatal"]
    ELSE LET data == Marshal(block)
             c1 == [c EXCEPT !.blocksFile = @ \o checksum(height, data) \o data,
                             !.lengthsFile = @ \o LittleEndian(Len(data), LengthEntryLen)]
             offset == c1.starts[Len(c1.starts)]
             c2 == AppendStart(c1, offset + Len(data) + ChecksumLen)
             dst == IF c2.latestHash = Nil THEN Zeros(Len(block.Hash)) ELSE c2.latestHash
         IN [c |-> [c2 EXCEPT !.latestHash = Copy(dst, block.Hash),
                              !.nextBlock = @ + 1],
             ret |-> "stored"]

\* Add: the new cache and what the call did: "stored", "ignored" (return nil
\* without storing) or "fatal" (Log.Fatal).
Add(c, height, block) ==
    IF height > c.nextBlock THEN [c |-> c, ret |-> "ignored"]
    ELSE IF height < c.firstBlock THEN [c |-> [c EXCEPT !.fault = "fatal"], ret |-> "fatal"]
    ELSE IF height < c.nextBlock THEN [c |-> [c EXCEPT !.fault = "fatal"], ret |-> "fatal"]
    ELSE IF block.Height # height THEN [c |-> [c EXCEPT !.fault = "fatal"], ret |-> "fatal"]
    ELSE LET data == Marshal(block)
             c1 == [c EXCEPT !.blocksFile = @ \o checksum(height, data) \o data,
                             !.lengthsFile = @ \o LittleEndian(Len(data), LengthEntryLen)]
             offset == c1.starts[Len(c1.starts)]
             c2 == AppendStart(c1, offset + Len(data) + ChecksumLen)
             dst == IF c2.latestHash = Nil THEN Zeros(Len(block.Hash)) ELSE c2.latestHash
         IN [c |-> [c2 EXCEPT !.latestHash = Copy(dst, block.Hash),
                              !.nextBlock = @ + 1],
             ret |-> "stored"]

\* Reorg that forgets to truncate the blocks file.
ReorgKeepsBlocksFile(c, height) ==
    LET h == IF height < c.firstBlock THEN c.firstBlock ELSE height
    IN IF h >= c.nextBlock THEN c
       ELSE LET newCacheLen == h - c.firstBlock
                c1 == Reslice([c EXCEPT !.nextBlock = h], newCacheLen + 1)
            IN IF c1.fault # "none" THEN c1
               ELSE setLatestHash(
                      [c1 EXCEPT !.lengthsFile = Truncate(@, LengthEntryLen * newCacheLen)])

\* Reorg: lower nextBlock to the height and drop the end of the cache.
Reorg(c, height) ==
    LET h == IF height < c.firstBlock THEN c.firstBlock ELSE height
    IN IF h >= c.nextBlock THEN c
       ELSE LET newCacheLen == h - c.firstBlock
                c1 == Reslice([c EXCEPT !.nextBlock = h], newCacheLen + 1)
            IN IF c1.fault # "none" THEN c1
               ELSE setLatestHash(
                      [c1 EXCEPT !.lengthsFile = Truncate(@, LengthEntryLen * newCacheLen),
                                 !.blocksFile = Truncate(@, c1.starts[newCacheLen + 1])])

\* Get: the block at the height, or nil; spawn is TRUE when the call starts
\* the recovery goroutine.
Get(c, height) ==
    IF height < c.firstBlock \/ height >= c.nextBlock
      THEN [tag |-> "nil", why |-> "range", block |-> NoBlock, spawn |-> FALSE]
    ELSE LET r == readBlock(c, height)
         IN [tag |-> r.tag, why |-> r.why, block |-> r.block, spawn |-> r.tag = "nil"]

GetNextHeight(c) == c.nextBlock

GetFirstHeight(c) == c.firstBlock

GetLatestHash(c) == c.latestHash

HashMatch(c, prevhash) == c.latestHash = Nil \/ c.latestHash = prevhash

\* GetLatestHeight that reports the height below nextBlock for an empty store too.
GetLatestHeightBelowNext(c) == c.nextBlock - 1

GetLatestHeight(c) == IF c.firstBlock = c.nextBlock THEN -1 ELSE c.nextBlock - 1

\* NewBlockCache on a directory without db files: an empty cache at startHeight.
NewBlockCache(startHeight) ==
    [lengthsFile |-> <<>>, blocksFile |-> <<>>,
     starts |-> <<0>>,
     firstBlock |-> startHeight, nextBlock |-> startHeight,
     latestHash |-> Nil,
     savedLengths |-> <<>>, savedBlocks |-> <<>>, savedFirst |-> -1,
     fault |-> "none"]


\* ----------------------------------------------------------------- LRUCache
\* Keys are 1..MaxKeys and values 1..MaxValues.
MaxKeys == 3
MaxValues == 2
\* Capacities asked of NewLRUCache are -1..MaxCap.
MaxCap == 2
\* Number of list elements one cache allocates over its life (an element is
\* never used again after it left the list).
MaxElems == 3
\* Number of threads that may be inside Get at the same time.
MaxReaders == 2
\* Number of times a Get starts while another thread is inside Get.
MaxOverlaps == 1

Keys == 1..MaxKeys
Values == 1..MaxValues
Elems == 1..MaxElems

\* container/list: the list's root element, and the nil pointer.
root == 0
NilPtr == -1

\* A cacheEntry not yet allocated.
NoEntry == [key |-> 0, value |-> 0]

\* x.next = y; writing through a nil pointer panics.
SetNext(l, x, y) ==
    IF l.fault # "none" THEN l
    ELSE IF x = NilPtr THEN [l EXCEPT !.fault = "panic"]
    ELSE [l EXCEPT !.next[x] = y]

\* x.prev = y
SetPrev(l, x, y) ==
    IF l.fault # "none" THEN l
    ELSE IF x = NilPtr THEN [l EXCEPT !.fault = "panic"]
    ELSE [l EXCEPT !.prev[x] = y]

\* List.Init
ListInit(l) == [l EXCEPT !.next[root] = root, !.prev[root] = root, !.len = 0]

\* (List.Front in the place of List.Back.)
BackIsFront(l) == IF l.len = 0 THEN NilPtr ELSE l.next[root]

\* List.Back
Back(l) == IF l.len = 0 THEN NilPtr ELSE l.prev[root]

\* List.insert(e, at)
insert(l, e, at) ==
    LET l1 == SetPrev(l, e, at)
        l2 == SetNext(l1, e, l1.next[at])
        l3 == SetNext(l2, l2.prev[e], e)
        l4 == SetPrev(l3, l3.next[e], e)
    IN [l4 EXCEPT !.inlist[e] = TRUE, !.len = @ + 1]

\* List.remove(e)
remove(l, e) ==
    LET l1 == SetNext(l, l.prev[e], l.next[e])
        l2 == SetPrev(l1, l1.next[e], l1.prev[e])
        l3 == SetNext(l2, e, NilPtr)
        l4 == SetPrev(l3, e, NilPtr)
    IN [l4 EXCEPT !.inlist[e] = FALSE, !.len = @ - 1]

\* List.Remove(e)
Remove(l, e) == IF l.inlist[e] THEN remove(l, e) ELSE l

\* The k-th of the six pointer assignments of List.move(e, at).
MoveStep(l, e, at, k) ==
    CASE k = 1 -> SetNext(l, l.prev[e], l.next[e])
      [] k = 2 -> SetPrev(l, l.next[e], l.prev[e])
      [] k = 3 -> SetPrev(l, e, at)
      [] k = 4 -> SetNext(l, e, l.next[at])
      [] k = 5 -> SetNext(l, l.prev[e], e)
      [] k = 6 -> SetPrev(l, l.next[e], e)

MoveSteps == 6

RECURSIVE MoveFrom(_, _, _, _)
MoveFrom(l, e, at, k) ==
    IF k > MoveSteps THEN l ELSE MoveFrom(MoveStep(l, e, at, k), e, at, k + 1)

\* List.move(e, at)
move(l, e, at) == IF e = at THEN l ELSE MoveFrom(l, e, at, 1)

\* List.MoveToFront(e) returns at once for an element of another list and for
\* the front element.
MovesNothing(l, e) == ~l.inlist[e] \/ l.next[root] = e

MoveToFront(l, e) == IF MovesNothing(l, e) THEN l ELSE move(l, e, root)

\* (List.PushBack in the place of List.PushFront.)
PushBack(l, entry) ==
    LET e == l.nelem + 1
    IN insert([l EXCEPT !.nelem = e, !.entry[e] = entry], e, l.prev[root])

\* List.PushFront(v): a new element with the entry, inserted after the root.
PushFront(l, entry) ==
    LET e == l.nelem + 1
    IN insert([l EXCEPT !.nelem = e, !.entry[e] = entry], e, root)

\* No cache: what NewLRUCache leaves when it panics.
NoLru ==
    [made |-> FALSE, fault |-> "none", capacity |-> 0,
     cache |-> [k \in Keys |-> 0],
     next |-> [e \in 0..MaxElems |-> IF e = root THEN root ELSE NilPtr],
     prev |-> [e \in 0..MaxElems |-> IF e = root THEN root ELSE NilPtr],
     inlist |-> [e \in 0..MaxElems |-> FALSE],
     entry |-> [e \in 0..MaxElems |-> NoEntry],
     len |-> 0, nelem |-> 0]

\* (NewLRUCache that takes the capacity 0.)
NewLRUCacheFromZero(capacity) ==
    IF capacity < 0 THEN [NoLru EXCEPT !.fault = "panic"]
    ELSE [NoLru EXCEPT !.made = TRUE, !.capacity = capacity]

\* NewLRUCache: panics for capacity <= 0.
NewLRUCache(capacity) ==
    IF capacity <= 0 THEN [NoLru EXCEPT !.fault = "panic"]
    ELSE [NoLru EXCEPT !.made = TRUE, !.capacity = capacity]

\* LRUCache.Put (under the exclusive lock).
LruPut(l, key, value) ==
    IF l.cache[key] # 0
      THEN LET e == l.cache[key]
           IN MoveToFront([l EXCEPT !.entry[e].value = value], e)
    ELSE LET evicted == Back(l)
             l1 == IF l.len = l.capacity /\ evicted # NilPtr
                     THEN IF evicted = root
                            THEN [l EXCEPT !.fault = "panic"]
                            ELSE [Remove(l, evicted) EXCEPT
                                      !.cache[l.entry[evicted].key] = 0]
                     ELSE l
         IN IF l1.fault # "none" THEN l1
            ELSE LET l2 == PushFront(l1, [key |-> key, value |-> value])
                 IN [l2 EXCEPT !.cache[key] = l2.nelem]

\* LRUCache.Delete
LruDelete(l, key) ==
    IF l.cache[key] # 0
      THEN [Remove(l, l.cache[key]) EXCEPT !.cache[key] = 0]
      ELSE l

\* LRUCache.Clear
LruClear(l) == [ListInit(l) EXCEPT !.cache = [k \in Keys |-> 0]]

\* LRUCache.Get run alone: the value read, and the cache after MoveToFront.
LruGet(l, key) ==
    IF l.cache[key] # 0
      THEN LET e == l.cache[key]
           IN [l |-> MoveToFront(l, e), ok |-> TRUE, value |-> l.entry[e].value]
      ELSE [l |-> l, ok |-> FALSE, value |-> 0]

\* ----------------------------------------------------------- MerkleFrontier
\* Transactions are the strings of length 0..MaxTxLen over MaxChar characters.
MaxTxLen == 2
MaxChar == 2
\* Number of leaves a frontier is grown to, and of transactions in one block.
MaxLeaves == 4
MaxBlockTxs == 2

\* A string is a sequence of symbols: a character, or the hex text of one
\* SHA-256 digest, kept as one symbol that names the string hashed (the
\* digest is taken as collision-free).
Char(k) == [ch |-> k, of |-> <<>>]

Chars == {Char(k) : k \in 1..MaxChar}

Txs == UNION {SeqsOfLen(Chars, n) : n \in 0..MaxTxLen}

\* hex.EncodeToString(sha256 of str)
Sha256Hex(str) == <<[ch |-> 0, of |-> str]>>

\* A *Node: nil, or a node with its Value.
NilNode == [nil |-> TRUE, Value |-> <<>>]

Node(value) == [nil |-> FALSE, Value |-> value]

\* combineHashes(left, right): right may be nil, and then adds nothing.
combineHashes(left, right) ==
    Sha256Hex(left \o (IF right.nil THEN <<>> ELSE right.Value))

\* buildParentLevel: one parent per pair, the last one of a single node.
buildParentLevel(nodes) ==
    [p \in 1..((Len(nodes) + 1) \div 2) |->
        LET left == nodes[2 * p - 1]
            right == IF 2 * p <= Len(nodes) THEN nodes[2 * p] ELSE NilNode
        IN Node(combineHashes(left.Value, right))]

\* buildTree
RECURSIVE buildTree(_)
buildTree(nodes) ==
    IF Len(nodes) > 1 THEN buildTree(buildParentLevel(nodes))
    ELSE IF Len(nodes) = 1 THEN nodes[1]
    ELSE NilNode

\* (updateTree that builds the tree only while there is no root.)
updateTreeOnce(m) == IF m.Root.nil THEN [m EXCEPT !.Root = buildTree(m.Leaves)] ELSE m
\* updateTree
updateTree(m) == [m EXCEPT !.Root = buildTree(m.Leaves)]

\* NewMerkleFrontier
NewMerkleFrontier == [Leaves |-> <<>>, Root |-> NilNode]

\* AddTransaction
AddTransaction(m, tx) == updateTree([m EXCEPT !.Leaves = Append(@, Node(tx))])

\* AddBlock
RECURSIVE AddBlock(_, _)
AddBlock(m, transactions) ==
    IF transactions = <<>> THEN m
    ELSE AddBlock(AddTransaction(m, Head(transactions)), Tail(transactions))

\* GetRoot: the root's value, or the error "merkle tree is empty".
GetRoot(m) ==
    IF m.Root.nil THEN [err |-> "empty", value |-> <<>>]
    ELSE [err |-> "", value |-> m.Root.Value]

\* (The next index in the place of index ^ 1.)
NextIndex(index) == index + 1

\* index ^ 1
XorOne(index) == IF index % 2 = 0 THEN index + 1 ELSE index - 1

\* The loop of GenerateProof.
RECURSIVE ProofLoop(_, _, _)
ProofLoop(nodes, index, proof) ==
    IF Len(nodes) > 1
      THEN LET siblingIndex == XorOne(index)
               sibling == IF siblingIndex < Len(nodes)
                            THEN nodes[siblingIndex + 1].Value
                            ELSE <<>>
           IN ProofLoop(buildParentLevel(nodes), index \div 2, Append(proof, sibling))
      ELSE proof

\* (GenerateProof that takes the index len(mf.Leaves).)
GenerateProofUpToCount(m, index) ==
    IF index < 0 \/ index > Len(m.Leaves)
      THEN [err |-> "range", proof |-> <<>>]
      ELSE [err |-> "", proof |-> ProofLoop(m.Leaves, index, <<>>)]

\* GenerateProof: the sibling path, or the error "index out of range".
GenerateProof(m, index) ==
    IF index < 0 \/ index >= Len(m.Leaves)
      THEN [err |-> "range", proof |-> <<>>]
      ELSE [err |-> "", proof |-> ProofLoop(m.Leaves, index, <<>>)]

\* ------------------------------------------------- MerkleTree and its sync
\* Width of the machine's int, in bits (64 on the platforms the program is
\* built for; the model keeps the arithmetic and scales the width down).
IntBits == 8
\* Number of nodes of a stored tree.
MaxNodes == 3
\* Frontier snapshots are stored for the heights 0..MaxSnapshotHeight, with
\* MaxSnapshots different contents.
MaxSnapshotHeight == 1
MaxSnapshots == 2
\* SyncNewBlocks is called with heights of 0..MaxSyncHeight.
MaxSyncHeight == 4

MaxInt == 2 ^ (IntBits - 1) - 1

MinInt == -(2 ^ (IntBits - 1))

\* The value an int holds after an arithmetic result x (two's complement).
WrapInt(x) == ((x - MinInt) % (2 ^ IntBits)) + MinInt

\* hashFunction
hashFunction(data) == Sha256Hex(data)

\* hashEmptyNode
hashEmptyNode == hashFunction(<<>>)

\* A *MerkleNode.
MerkleNode(data, index) == [Data |-> data, Index |-> index]

\* MerkleTree.Root
Root(t) == t.RootHash

\* The sibling's hash as IsPartOf and GenerateProof read it.
SiblingHash(tree, siblingIndex) ==
    IF siblingIndex < Len(tree.Nodes) THEN tree.Nodes[siblingIndex + 1].Data
    ELSE hashEmptyNode

\* The loop of MerkleTree.GenerateProof.
RECURSIVE ProofHashes(_, _, _)
ProofHashes(t, currentIndex, hashes) ==
    IF currentIndex > 0
      THEN ProofHashes(t, (currentIndex - 1) \div 2,
                       Append(hashes, SiblingHash(t, XorOne(currentIndex))))
      ELSE hashes

\* MerkleTree.GenerateProof
TreeGenerateProof(t, node) ==
    [Hashes |-> ProofHashes(t, node.Index, <<>>), Index |-> node.Index]

\* The loop of MerkleNode.IsPartOf.
RECURSIVE Recombine(_, _, _)
Recombine(tree, currentHash, currentIndex) ==
    IF currentIndex > 0
      THEN LET siblingHash == SiblingHash(tree, XorOne(currentIndex))
           IN Recombine(tree,
                  IF currentIndex % 2 = 0 THEN hashFunction(currentHash \o siblingHash)
                  ELSE hashFunction(siblingHash \o currentHash),
                  (currentIndex - 1) \div 2)
      ELSE currentHash

\* MerkleNode.IsPartOf
IsPartOf(n, rootHash, tree) == Recombine(tree, n.Data, n.Index) = rootHash

\* (GetNodesNotIn that keeps the nodes that are part of the root.)
RECURSIVE NodesIn(_, _, _, _)
NodesIn(t, localRoot, i, missingNodes) ==
    IF i > Len(t.Nodes) THEN missingNodes
    ELSE NodesIn(t, localRoot, i + 1,
             IF IsPartOf(t.Nodes[i], localRoot, t)
               THEN Append(missingNodes, t.Nodes[i])
               ELSE missingNodes)

\* The loop of MerkleTree.GetNodesNotIn.
RECURSIVE NodesNotIn(_, _, _, _)
NodesNotIn(t, localRoot, i, missingNodes) ==
    IF i > Len(t.Nodes) THEN missingNodes
    ELSE NodesNotIn(t, localRoot, i + 1,
             IF ~IsPartOf(t.Nodes[i], localRoot, t)
               THEN Append(missingNodes, t.Nodes[i])
               ELSE missingNodes)

\* MerkleTree.GetNodesNotIn
GetNodesNotIn(t, localRoot) == NodesNotIn(t, localRoot, 1, <<>>)

\* PaginateDeltas: page * pageSize and start + pageSize are int arithmetic;
\* deltas[start:end] panics for start < 0 and for end < start.
PaginateDeltas(deltas, page, pageSize) ==
    LET start == WrapInt(page * pageSize)
        sum == WrapInt(start + pageSize)
        end == IF sum > Len(deltas) THEN Len(deltas) ELSE sum
    IN IF start >= Len(deltas) THEN [panic |-> FALSE, deltas |-> <<>>]
       ELSE IF start < 0 \/ end < start THEN [panic |-> TRUE, deltas |-> <<>>]
       ELSE [panic |-> FALSE, deltas |-> SubSeq(deltas, start + 1, end)]

\* JSON values: a string, a number (a float64, exact for the ints of the
\* model), an array, null.
JString(str) == [t |-> "string", v |-> str]

JNumber(n) == [t |-> "number", v |-> n]

JArray(elems) == [t |-> "array", v |-> elems]

JNull == [t |-> "null", v |-> <<>>]

\* serializeNodes
serializeNodes(nodes) ==
    [i \in 1..Len(nodes) |-> [Data |-> nodes[i].Data, Index |-> nodes[i].Index]]

\* json.Marshal of the map UpdateMerkleTreeInDB builds.
MarshalTree(treeData) ==
    [RootHash |-> JString(treeData.RootHash),
     Nodes |-> JArray([i \in 1..Len(treeData.Nodes) |->
                  [Data |-> JString(treeData.Nodes[i].Data),
                   Index |-> JNumber(treeData.Nodes[i].Index)]])]

NoTree == [RootHash |-> <<>>, Nodes |-> <<>>]

\* NewMerkleTreeFromData: each type assertion panics on a value of another
\* JSON type.
NewMerkleTreeFromData(data) ==
    IF \/ data.Nodes.t # "array"
       \/ data.RootHash.t # "string"
       \/ \E i \in 1..Len(data.Nodes.v) :
             data.Nodes.v[i].Data.t # "string" \/ data.Nodes.v[i].Index.t # "number"
      THEN [panic |-> TRUE, tree |-> NoTree]
      ELSE [panic |-> FALSE,
            tree |-> [RootHash |-> data.RootHash.v,
                      Nodes |-> [i \in 1..Len(data.Nodes.v) |->
                                    MerkleNode(data.Nodes.v[i].Data.v,
                                               data.Nodes.v[i].Index.v)]]]

\* The database: the connection, the row id = 1 of merkle_tree and the rows
\* of merkle_frontiers by block_height.
NoRow == [present |-> FALSE, data |-> MarshalTree(NoTree)]

NoSnapshot == [present |-> FALSE, data |-> <<>>]

SnapshotHeights == 0..MaxSnapshotHeight

Snapshots == {<<Char(k)>> : k \in 1..MaxSnapshots}

\* A tree row whose Nodes member is null.
NullNodesRow == [RootHash |-> JString(<<Char(1)>>), Nodes |-> JNull]

\* A tree row that holds a JSON array, not an object.
ArrayRow == JArray(<<>>)

\* json.Unmarshal into a map accepts a JSON object and rejects an array.
IsObject(data) == "t" \notin DOMAIN data

\* GetDBConnection
GetDBConnection(d) == IF d.conn THEN "" ELSE "database connection is not initialized"

\* LoadServerMerkleTree: the tree, or an error; the query may fail.
LoadServerMerkleTree(d, queryFails) ==
    IF GetDBConnection(d) # "" THEN [err |-> GetDBConnection(d), tree |-> NoTree]
    ELSE IF queryFails THEN [err |-> "query", tree |-> NoTree]
    ELSE IF ~d.tree.present
      THEN [err |-> "no Merkle tree found in database", tree |-> NoTree]
    ELSE IF ~IsObject(d.tree.data)
      THEN [err |-> "json: cannot unmarshal into Go value of type map", tree |-> NoTree]
    ELSE LET r == NewMerkleTreeFromData(d.tree.data)
         IN [err |-> IF r.panic THEN "panic" ELSE "", tree |-> r.tree]

\* SELECT MAX(block_height) FROM merkle_frontiers (-1 for no row).
MaxBlockHeight(d) ==
    IF \A h \in SnapshotHeights : ~d.frontiers[h].present THEN -1
    ELSE CHOOSE h \in SnapshotHeights :
            /\ d.frontiers[h].present
            /\ \A g \in SnapshotHeights : d.frontiers[g].present => g <= h

\* fetchFrontierForSync: every failure gives ("", false).
fetchFrontierForSync(d, queryFails) ==
    IF GetDBConnection(d) # "" \/ queryFails \/ MaxBlockHeight(d) = -1
      THEN [frontierData |-> <<>>, frontierExists |-> FALSE]
      ELSE [frontierData |-> d.frontiers[MaxBlockHeight(d)].data,
            frontierExists |-> TRUE]

\* UpdateMerkleTreeInDB: UPDATE ... WHERE id = 1 changes the row if there is
\* one and reports no error when there is none.
UpdateMerkleTreeInDB(d, tree, execFails) ==
    IF GetDBConnection(d) # "" THEN [err |-> "database connection failed", d |-> d]
    ELSE IF execFails
      THEN [err |-> "failed to update Merkle tree in database", d |-> d]
    ELSE [err |-> "",
          d |-> IF d.tree.present
                  THEN [d EXCEPT !.tree.data =
                           MarshalTree([RootHash |-> Root(tree),
                                        Nodes |-> serializeNodes(tree.Nodes)])]
                  ELSE d]

\* StoreMerkleFrontier: INSERT ... ON CONFLICT (block_height) DO UPDATE.
StoreMerkleFrontier(d, blockHeight, frontierData, execFails) ==
    IF GetDBConnection(d) # "" THEN [err |-> "database connection failed", d |-> d]
    ELSE IF execFails
      THEN [err |-> "failed to store Merkle Frontier in database", d |-> d]
    ELSE [err |-> "",
          d |-> [d EXCEPT !.frontiers[blockHeight] =
                    [present |-> TRUE, data |-> frontierData]]]

\* GenerateDeltasAndProofs: the data of the nodes GetNodesNotIn returns, and
\* the proof of each.
GenerateDeltasAndProofs(localRoot, serverTree) ==
    LET missing == GetNodesNotIn(serverTree, localRoot)
    IN [deltas |-> [i \in 1..Len(missing) |-> missing[i].Data],
        proofs |-> [i \in 1..Len(missing) |-> TreeGenerateProof(serverTree, missing[i])]]

\* net/http status codes, and the page size taken when none is given.
StatusOK == 200
StatusBadRequest == 400
StatusInternalServerError == 500
DefaultPageSize == 100
\* A panic inside the handler: net/http drops the connection without a
\* response.
Panicked == -1

\* A query parameter: not given, or given with a text; a text is a decimal
\* int or anything else.
NotGiven == [kind |-> "absent", text |-> <<>>, n |-> 0]

TextParam(str) == [kind |-> "text", text |-> str, n |-> 0]

IntParam(n) == [kind |-> "int", text |-> <<>>, n |-> n]

\* r.URL.Query().Get(name), for a parameter read as a string.
QueryGet(param) == IF param.kind = "text" THEN param.text ELSE <<>>

\* strconv.Atoi(r.URL.Query().Get(name))
Atoi(param) ==
    IF param.kind = "int" THEN [err |-> FALSE, n |-> param.n]
    ELSE [err |-> TRUE, n |-> 0]

NoResponse ==
    [status |-> 0, ServerRoot |-> <<>>, Deltas |-> <<>>, Proof |-> <<>>,
     Frontier |-> <<>>, Incremental |-> FALSE, Page |-> 0, PageSize |-> 0,
     reads |-> <<>>]

\* (MerkleSyncHandler that loads the tree before it looks at the root.)
MerkleSyncHandlerLoadsFirst(d, req, fails) ==
    LET localRoot == QueryGet(req.root)
        loaded == LoadServerMerkleTree(d, fails.tree)
    IN IF localRoot = <<>>
         THEN [NoResponse EXCEPT !.status = StatusBadRequest,
                  !.reads = IF d.conn THEN <<"merkle_tree">> ELSE <<>>]
         ELSE [NoResponse EXCEPT !.status = StatusInternalServerError]

\* MerkleSyncHandler: the response, and the tables it read on the way.
MerkleSyncHandler(d, req, fails) ==
    LET localRoot == QueryGet(req.root)
        page == IF Atoi(req.page).err \/ Atoi(req.page).n < 0 THEN 0
                ELSE Atoi(req.page).n
        pageSize == IF Atoi(req.pageSize).err \/ Atoi(req.pageSize).n <= 0
                      THEN DefaultPageSize
                      ELSE Atoi(req.pageSize).n
        loaded == LoadServerMerkleTree(d, fails.tree)
        serverTree == loaded.tree
        frontier == fetchFrontierForSync(d, fails.frontier)
        readTree == IF d.conn THEN <<"merkle_tree">> ELSE <<>>
        readBoth == readTree \o <<"merkle_frontiers">>
        dp == GenerateDeltasAndProofs(localRoot, serverTree)
        paginated == PaginateDeltas(dp.deltas, page, pageSize)
    IN IF localRoot = <<>>
         THEN [NoResponse EXCEPT !.status = StatusBadRequest]
       ELSE IF loaded.err = "panic"
         THEN [NoResponse EXCEPT !.status = Panicked, !.reads = readTree]
       ELSE IF loaded.err # ""
         THEN [NoResponse EXCEPT !.status = StatusInternalServerError,
                  !.reads = readTree]
       ELSE IF Root(serverTree) = localRoot
         THEN [NoResponse EXCEPT !.status = StatusOK,
                  !.ServerRoot = Root(serverTree),
                  !.Frontier = frontier.frontierData,
                  !.Incremental = frontier.frontierExists,
                  !.reads = readBoth]
       ELSE IF paginated.panic
         THEN [NoResponse EXCEPT !.status = Panicked, !.reads = readBoth]
       ELSE [NoResponse EXCEPT !.status = StatusOK,
                !.ServerRoot = Root(serverTree),
                !.Deltas = paginated.deltas,
                !.Proof = dp.proofs,
                !.Frontier = frontier.frontierData,
                !.Incremental = frontier.frontierExists,
                !.Page = page,
                !.PageSize = pageSize,
                !.reads = readBoth]

\* -------------------------------------------------------------------- state
VARIABLES
    cache,      \* the BlockCache and its two db files
    pending,    \* heights of the recovery goroutines waiting for the lock
    reset,      \* position of the thread inside Reset (which takes no lock)
    last,       \* the call that ended last, with its result
    added,      \* per retained height, the block of the last successful Add
    ncorrupt,   \* how many times the blocks file was damaged
    raced,      \* how many calls ran while a Reset was under way
    nadd,       \* how many blocks Add has stored
    lru,        \* one LRUCache: its map, its list and the capacity
    getters,    \* per thread, its position inside LRUCache.Get
    lruRef,     \* what a reference LRU holds after the same calls
    lruLast,    \* the LRUCache call that ended last, with its result
    mf,         \* one MerkleFrontier
    mfLast,     \* the MerkleFrontier call that ended last, with its result
    db,         \* the database: connection, tree row, frontier snapshots
    sync,       \* the database or /merkle/sync call that ended last
    sm          \* the SyncManager's position inside SyncNewBlocks

storeVars == <<cache, pending, reset, last, added, ncorrupt, raced, nadd>>

lruVars == <<lru, getters, lruRef, lruLast>>

mfVars == <<mf, mfLast>>

syncVars == <<db, sync, sm>>

vars == <<cache, pending, reset, last, added, ncorrupt, raced, nadd,
          lru, getters, lruRef, lruLast, mf, mfLast, db, sync, sm>>

\* The reference LRU: per key a value and the rank of its last access among
\* the keys held (1 is the oldest, 0 is a key not held).
NoRef == [stamp |-> [k \in Keys |-> 0], value |-> [k \in Keys |-> 0]]

RefRank(stamp) ==
    [k \in Keys |->
        IF stamp[k] = 0 THEN 0
        ELSE Cardinality({j \in Keys : stamp[j] > 0 /\ stamp[j] <= stamp[k]})]

RefHeld(r) == {k \in Keys : r.stamp[k] > 0}

RefOldest(r) == CHOOSE k \in Keys : r.stamp[k] = 1

RefTouch(r, key) == [r EXCEPT !.stamp = RefRank([r.stamp EXCEPT ![key] = MaxKeys + 1])]

RefDelete(r, key) ==
    [r EXCEPT !.stamp = RefRank([r.stamp EXCEPT ![key] = 0]), !.value[key] = 0]

RefPut(r, capacity, key, value) ==
    IF key \in RefHeld(r) THEN RefTouch([r EXCEPT !.value[key] = value], key)
    ELSE LET room == IF Cardinality(RefHeld(r)) >= capacity
                       THEN RefDelete(r, RefOldest(r))
                       ELSE r
         IN RefTouch([room EXCEPT !.value[key] = value], key)

RefGet(r, key) ==
    IF key \in RefHeld(r)
      THEN [r |-> RefTouch(r, key), ok |-> TRUE, value |-> r.value[key]]
      ELSE [r |-> r, ok |-> FALSE, value |-> 0]

Readers == 1..MaxReaders

Outside == [pc |-> 0, e |-> 0, key |-> 0, refok |-> FALSE, refvalue |-> 0]

NoLruCall == [op |-> "none", key |-> 0, arg |-> 0, ok |-> FALSE, value |-> 0,
              refok |-> FALSE, refvalue |-> 0, dropped |-> {}]

\* Before NewLRUCache is called. run lists the calls made so far while they
\* are Puts of keys all different; overlapped counts the Gets that started
\* while another thread was inside Get.
LruInit ==
    /\ lru = NoLru
    /\ getters = [t \in Readers |-> Outside]
    /\ lruRef = [r |-> NoRef, run |-> <<>>, puts |-> TRUE, overlapped |-> 0]
    /\ lruLast = NoLruCall

NoMfCall == [op |-> "none", index |-> 0, err |-> "", value |-> <<>>, proof |-> <<>>,
             before |-> NewMerkleFrontier]

MfInit ==
    /\ mf = NewMerkleFrontier
    /\ mfLast = NoMfCall

\* The database before InitializeDB, with empty tables.
NoDb == [conn |-> FALSE, tree |-> NoRow,
         frontiers |-> [h \in SnapshotHeights |-> NoSnapshot]]

NoRequest == [root |-> NotGiven, page |-> NotGiven, pageSize |-> NotGiven]

NoSync == [op |-> "none", req |-> NoRequest, resp |-> NoResponse, err |-> "",
           tree |-> NoTree, before |-> NoDb]

SyncIdle ==
    /\ db = NoDb
    /\ sync = NoSync

\* No SyncNewBlocks call made yet.
NoRun == [pc |-> "idle", startHeight |-> 0, endHeight |-> 0, height |-> 0,
          processed |-> <<>>, err |-> ""]

SmInit == sm = NoRun

StartHeights == 0..MaxStart

None == [Height |-> -1, Hash |-> <<>>]

NoCall == [op |-> "init", h |-> 0, ret |-> ""]

Stored == 0..(MaxStart + MaxAdds)

Retained(c) == {h \in Stored : c.firstBlock <= h /\ h < c.nextBlock}

\* What the bookkeeping remembers after the cache went from c to d.
Remember(a, d) == [h \in DOMAIN a |-> IF h \in Retained(d) THEN a[h] ELSE None]

Init ==
    /\ cache \in {NewBlockCache(s) : s \in StartHeights}
    /\ pending = <<>>
    /\ reset = [pc |-> 0, startHeight |-> 0]
    /\ last = NoCall
    /\ added = [h \in Stored |-> None]
    /\ ncorrupt = 0
    /\ raced = 0
    /\ nadd = 0
    /\ LruInit
    /\ MfInit
    /\ SyncIdle
    /\ SmInit

Running == cache.fault = "none"

\* A call of another thread: it may overlap a Reset, which holds no lock.
Overlap ==
    /\ reset.pc # 0 => raced + ncorrupt < MaxDisturb
    /\ raced' = IF reset.pc # 0 THEN raced + 1 ELSE raced

\* ------------------------------------------------------------------ actions
CallAdd(height, block) ==
    /\ Running
    /\ Overlap
    /\ nadd < MaxAdds
    /\ LET r == Add(cache, height, block)
       IN /\ cache' = r.c
          /\ nadd' = IF r.ret = "stored" THEN nadd + 1 ELSE nadd
          /\ last' = [op |-> "Add", h |-> height, ret |-> r.ret]
          /\ added' = IF r.ret = "stored"
                        THEN [Remember(added, r.c) EXCEPT ![height] = block]
                        ELSE added
    /\ UNCHANGED <<pending, reset, ncorrupt, lruVars, mfVars, syncVars>>

CallReorg(height) ==
    /\ Running
    /\ Overlap
    /\ LET d == Reorg(cache, height)
       IN /\ cache' = d
          /\ added' = Remember(added, d)
          /\ last' = [op |-> "Reorg", h |-> height,
                      ret |-> IF d.fault # "none" THEN d.fault ELSE ""]
    /\ UNCHANGED <<nadd, pending, reset, ncorrupt, lruVars, mfVars, syncVars>>

CallGet(height) ==
    /\ Running
    /\ Overlap
    /\ LET r == Get(cache, height)
       IN /\ r.spawn => Len(pending) < MaxPending
          /\ cache' = IF r.tag = "panic" THEN [cache EXCEPT !.fault = "panic"] ELSE cache
          /\ pending' = IF r.spawn THEN Append(pending, height - RollbackDistance)
                        ELSE pending
          /\ last' = [op |-> "Get", h |-> height,
                      ret |-> IF r.tag = "ok" THEN "ok" ELSE r.why]
    /\ UNCHANGED <<nadd, reset, added, ncorrupt, lruVars, mfVars, syncVars>>

\* The goroutine started by Get: Lock, recoverFromCorruption, Unlock.
Recover(i) ==
    /\ Running
    /\ raced' = IF reset.pc # 0 THEN raced + 1 ELSE raced
    /\ i \in 1..Len(pending)
    /\ LET d == recoverFromCorruption(cache, pending[i])
       IN /\ cache' = d
          /\ added' = Remember(added, d)
          /\ last' = [op |-> "Recover", h |-> pending[i],
                      ret |-> IF d.fault # "none" THEN d.fault ELSE ""]
    /\ pending' = SubSeq(pending, 1, i - 1) \o SubSeq(pending, i + 1, Len(pending))
    /\ UNCHANGED <<nadd, reset, ncorrupt, lruVars, mfVars, syncVars>>

CallHashMatch(prevhash) ==
    /\ Running
    /\ Overlap
    /\ last' = [op |-> "HashMatch", h |-> 0,
                ret |-> IF HashMatch(cache, prevhash) THEN "true" ELSE "false"]
    /\ UNCHANGED <<nadd, cache, pending, reset, added, ncorrupt, lruVars, mfVars, syncVars>>

\* Reset holds no lock: its three statements interleave with the other calls.
ResetSetDbFiles(startHeight) ==
    /\ Running
    /\ reset.pc = 0
    /\ LET d == setDbFiles(cache, cache.firstBlock)
       IN /\ cache' = d
          /\ added' = Remember(added, d)
    /\ reset' = [pc |-> 1, startHeight |-> startHeight]
    /\ UNCHANGED <<raced, nadd, pending, last, ncorrupt, lruVars, mfVars, syncVars>>

ResetFirstBlock ==
    /\ Running
    /\ reset.pc = 1
    /\ cache' = [cache EXCEPT !.firstBlock = reset.startHeight]
    /\ added' = Remember(added, cache')
    /\ reset' = [reset EXCEPT !.pc = 2]
    /\ UNCHANGED <<raced, nadd, pending, last, ncorrupt, lruVars, mfVars, syncVars>>

ResetNextBlock ==
    /\ Running
    /\ reset.pc = 2
    /\ cache' = [cache EXCEPT !.nextBlock = reset.startHeight]
    /\ added' = Remember(added, cache')
    /\ reset' = [pc |-> 0, startHeight |-> 0]
    /\ last' = [op |-> "Reset", h |-> reset.startHeight, ret |-> ""]
    /\ UNCHANGED <<raced, nadd, pending, ncorrupt, lruVars, mfVars, syncVars>>

\* The environment damages the record the cache indexes under a height: one
\* bit of one byte flips. The seven high bytes of a checksum stand for the
\* whole 64-bit value, so damage to a checksum is damage to its low byte.
Flip(v) == Xor(v, 1)

RecordFrom(c, height) == c.starts[height - c.firstBlock + 1]

RecordTo(c, height) == c.starts[height - c.firstBlock + 2]

Indexed(c, height) ==
    /\ height \in Retained(c)
    /\ height - c.firstBlock + 2 <= Len(c.starts)
    /\ 0 <= RecordFrom(c, height)
    /\ RecordFrom(c, height) + ChecksumLen <= RecordTo(c, height)
    /\ RecordTo(c, height) <= Len(c.blocksFile)

CorruptByte(height, p) ==
    /\ Running
    /\ raced + ncorrupt < MaxDisturb
    /\ Indexed(cache, height)
    /\ RecordFrom(cache, height) + ChecksumLen <= p
    /\ p <= RecordTo(cache, height)
    /\ cache' = [cache EXCEPT !.blocksFile[p] = Flip(@)]
    /\ ncorrupt' = ncorrupt + 1
    /\ UNCHANGED <<raced, nadd, pending, reset, last, added, lruVars, mfVars, syncVars>>

\* Damage that the checksum does not reveal (FNV-1a is no cryptographic hash):
\* a payload byte of the record changes and the stored checksum is the one of
\* the changed payload.
CorruptUndetected(height, p) ==
    /\ Running
    /\ raced + ncorrupt < MaxDisturb
    /\ Indexed(cache, height)
    /\ RecordFrom(cache, height) + ChecksumLen < p
    /\ p <= RecordTo(cache, height)
    /\ LET from == RecordFrom(cache, height)
           f == [cache.blocksFile EXCEPT ![p] = Flip(@)]
           cs == checksum(height, SubSeq(f, from + ChecksumLen + 1, RecordTo(cache, height)))
       IN cache' = [cache EXCEPT !.blocksFile =
                      [f EXCEPT ![from + ChecksumLen] = cs[ChecksumLen]]]
    /\ ncorrupt' = ncorrupt + 1
    /\ UNCHANGED <<raced, nadd, pending, reset, last, added, lruVars, mfVars, syncVars>>

MaxFileLen == 2 * MaxAdds * (ChecksumLen + 4 + MaxHashLen)

Next ==
    \/ \E h \in Heights, b \in Blocks : CallAdd(h, b)
    \/ \E h \in Heights : CallReorg(h)
    \/ \E h \in Heights : CallGet(h)
    \/ \E i \in 1..MaxPending : Recover(i)
    \/ \E p \in Hashes : CallHashMatch(p)
    \/ \E s \in StartHeights : ResetSetDbFiles(s)
    \/ ResetFirstBlock
    \/ ResetNextBlock
    \/ \E h \in Stored, p \in 1..MaxFileLen : CorruptByte(h, p)
    \/ \E h \in Stored, p \in 1..MaxFileLen : CorruptUndetected(h, p)

Spec == Init /\ [][Next]_vars

TypeOK ==
    /\ cache.fault \in {"none", "panic", "fatal"}
    /\ reset.pc \in 0..2


\* ------------------------------------------------------------------ helpers
\* The cache's view of its content, field by field (the fault flag aside).
SameStore(c, d) ==
    /\ c.firstBlock = d.firstBlock
    /\ c.nextBlock = d.nextBlock
    /\ c.starts = d.starts
    /\ c.latestHash = d.latestHash
    /\ c.lengthsFile = d.lengthsFile
    /\ c.blocksFile = d.blocksFile

\* The bytes of the record Add writes for a block at a height.
Record(height, block) == checksum(height, Marshal(block)) \o Marshal(block)

\* No thread is inside a store operation (every locked call is one step; Reset
\* is the only call that spans several).
Quiet == Running /\ reset.pc = 0

\* Every call so far ran alone: no call overlapped a Reset.
Serial == raced = 0

\* The shape of the store that C1 describes.
Contiguous(c) ==
    /\ c.firstBlock <= c.nextBlock
    /\ Len(c.starts) = c.nextBlock - c.firstBlock + 1
    /\ c.starts[1] = 0
    /\ \A i \in 1..(Len(c.starts) - 1) : c.starts[i] < c.starts[i + 1]
    /\ Len(c.lengthsFile) = LengthEntryLen * (c.nextBlock - c.firstBlock)
    /\ Len(c.blocksFile) = c.starts[Len(c.starts)]

\* C1 (as claimed): whenever no store operation is in progress, firstBlock <=
\* nextBlock, the offset index has nextBlock - firstBlock + 1 strictly
\* increasing entries starting at 0, and the two files hold exactly the records
\* of the heights in [firstBlock, nextBlock).
C1_ContiguousRange == Quiet => Contiguous(cache)

\* The same shape when every Reset ran alone (used to locate C1's failure).
SerialContiguous == (Quiet /\ Serial) => Contiguous(cache)


AllHeights == (-1)..(MaxStart + MaxAdds + 1)

\* C2: with undamaged files and calls that ran one after the other, Get(h)
\* returns for every h in [firstBlock, nextBlock) the block of the last
\* successful Add(h, b) (its height is h, the stored bytes are the ones Add
\* wrote for b), and nil for every other h.
C2_GetReturnsAdded ==
    (Quiet /\ Serial /\ ncorrupt = 0) =>
        \A h \in AllHeights :
            LET r == Get(cache, h)
            IN IF cache.firstBlock <= h /\ h < cache.nextBlock
                 THEN /\ r.tag = "ok"
                      /\ r.block = added[h]
                      /\ r.block.Height = h
                      /\ Indexed(cache, h)
                      /\ SubSeq(cache.blocksFile, RecordFrom(cache, h) + 1, RecordTo(cache, h))
                           = Record(h, added[h])
                 ELSE r.tag = "nil" /\ r.why = "range"

\* A Get that returned a block from a store that a Reorg or a Reset had
\* truncated: every Add of the run was stored and fewer blocks remain.
C2_Witness ==
    /\ Quiet /\ Serial /\ ncorrupt = 0
    /\ last.op = "Get" /\ last.ret = "ok"
    /\ nadd = MaxAdds
    /\ cache.nextBlock - cache.firstBlock < MaxAdds


AddEffect(c, h, b) ==
    LET r == Add(c, h, b)
    IN \/ SameStore(r.c, c)
       \/ /\ h = c.nextBlock
          /\ b.Height = h
          /\ r.c.nextBlock = c.nextBlock + 1
          /\ r.c.firstBlock = c.firstBlock
          /\ r.c.starts = Append(c.starts, c.starts[Len(c.starts)] + Len(Record(h, b)))
          /\ r.c.blocksFile = c.blocksFile \o Record(h, b)
          /\ Len(r.c.lengthsFile) = Len(c.lengthsFile) + LengthEntryLen
          /\ Get(r.c, h).tag = "ok"
          /\ Get(r.c, h).block = b

\* The payload the cache indexes under a height reports that height.
ReportsOwnHeight(c, h) ==
    Indexed(c, h) =>
        LET u == Unmarshal(SubSeq(c.blocksFile, RecordFrom(c, h) + ChecksumLen + 1,
                                  RecordTo(c, h)))
        IN ~u.err /\ u.block.Height = h

\* C4 (as claimed): every call Add(h, b) leaves the store unchanged or appends
\* exactly one record, at the old nextBlock = h, whose own height is h; and in
\* undamaged files no retained height is indexed to a record that reports
\* another height.
C4_AddAppendsOneRecord ==
    Quiet =>
        /\ \A h \in AllHeights, b \in Blocks : AddEffect(cache, h, b)
        /\ ncorrupt = 0 => \A h \in Retained(cache) : ReportsOwnHeight(cache, h)

\* The same when every Reset ran alone (used to locate C4's failure).
SerialAddAppendsOneRecord == Serial => C4_AddAppendsOneRecord


\* The hash field of the record the blocks file holds for a retained height.
StoredHash(c, h) ==
    Unmarshal(SubSeq(c.blocksFile, RecordFrom(c, h) + ChecksumLen + 1, RecordTo(c, h))).block.Hash

\* C5 (as claimed, for the heights Add accepts after the Reorg): Reorg(h)
\* followed by Add(h, b) with b.height = h yields GetLatestHeight() = h and
\* GetLatestHash() = b.hash.
C5_ReorgThenAdd ==
    (Quiet /\ ncorrupt = 0) =>
        \A h \in AllHeights, b \in Blocks :
            (b.Height = h /\ cache.firstBlock <= h /\ h <= cache.nextBlock) =>
                LET d == Add(Reorg(cache, h), h, b).c
                IN /\ GetLatestHeight(d) = h
                   /\ GetLatestHash(d) = b.Hash

\* The part of C5 that does not read latestHash.
C5_HeightAfterReorgThenAdd ==
    (Quiet /\ ncorrupt = 0 /\ Serial) =>
        \A h \in AllHeights, b \in Blocks :
            (b.Height = h /\ cache.firstBlock <= h /\ h <= cache.nextBlock) =>
                GetLatestHeight(Add(Reorg(cache, h), h, b).c) = h

\* C7 (as claimed): whenever no store operation is in progress (and the files
\* are undamaged), latestHash is nil exactly when firstBlock = nextBlock, and
\* otherwise it is the hash of the record stored at nextBlock - 1.
C7_LatestHashIsTipHash ==
    (Quiet /\ ncorrupt = 0) =>
        IF cache.firstBlock = cache.nextBlock
          THEN cache.latestHash = Nil
          ELSE /\ Indexed(cache, cache.nextBlock - 1)
               /\ cache.latestHash = StoredHash(cache, cache.nextBlock - 1)

\* C7 with every Reset run alone: what is left is Add's copy into the old slice.
SerialLatestHashIsTipHash == Serial => C7_LatestHashIsTipHash

\* C8 (as claimed): HashMatch(prevHash) is true exactly when the store is empty
\* or prevHash is the hash of the record at nextBlock - 1.
C8_HashMatchIsTipMatch ==
    (Quiet /\ ncorrupt = 0 /\ Serial) =>
        \A p \in Hashes :
            HashMatch(cache, p) <=>
                \/ cache.firstBlock = cache.nextBlock
                \/ /\ Indexed(cache, cache.nextBlock - 1)
                   /\ p = StoredHash(cache, cache.nextBlock - 1)


Max(a, b) == IF a >= b THEN a ELSE b

\* The first n records of the store c are those of the store d, byte by byte.
KeepsBelow(c, d, h) ==
    /\ d.firstBlock = c.firstBlock
    /\ d.starts = SubSeq(c.starts, 1, h - c.firstBlock + 1)
    /\ d.lengthsFile = SubSeq(c.lengthsFile, 1, LengthEntryLen * (h - c.firstBlock))
    /\ d.blocksFile = SubSeq(c.blocksFile, 1, c.starts[h - c.firstBlock + 1])

\* C6 (as claimed, with undamaged files): Reorg(h) with h' = max(h,
\* firstBlock) < nextBlock leaves nextBlock = h', keeps the records below h',
\* drops every record at or above h' from the index and both files, and sets
\* latestHash to the hash of the record at h' - 1 (nil when h' = firstBlock).
C6_ReorgTruncatesTo ==
    (Running /\ ncorrupt = 0) =>
        \A h \in AllHeights :
            LET hh == Max(h, cache.firstBlock)
                d == Reorg(cache, h)
            IN hh < cache.nextBlock =>
                 /\ d.fault = "none"
                 /\ d.nextBlock = hh
                 /\ KeepsBelow(cache, d, hh)
                 /\ d.latestHash = IF hh = cache.firstBlock THEN Nil
                                   ELSE StoredHash(cache, hh - 1)

\* What Reorg does when every Reset ran alone (used to locate C6's failure):
\* it truncates to h' exactly when h' = firstBlock or the record at h' - 1
\* passes readBlock; when that record is damaged, corruption recovery truncates
\* further. In both cases the records below the new nextBlock are kept, the
\* index and both files end there, and latestHash is the hash of the record
\* below the new nextBlock (nil when the store is empty).
SerialReorgTruncatesOrRecovers ==
    (Quiet /\ Serial) =>
        \A h \in AllHeights :
            LET hh == Max(h, cache.firstBlock)
                d == Reorg(cache, h)
            IN hh < cache.nextBlock =>
                 /\ d.fault = "none"
                 /\ d.nextBlock <= hh
                 /\ d.nextBlock = hh <=>
                        (hh = cache.firstBlock \/ readBlock(cache, hh - 1).tag = "ok")
                 /\ KeepsBelow(cache, d, d.nextBlock)
                 /\ d.latestHash = IF d.nextBlock = cache.firstBlock THEN Nil
                                   ELSE readBlock(cache, d.nextBlock - 1).block.Hash
                 /\ d.nextBlock > cache.firstBlock =>
                        readBlock(cache, d.nextBlock - 1).tag = "ok"

\* The same with undamaged files: Reorg run alone does what C6 says.
SerialReorgTruncatesTo == (Serial /\ reset.pc = 0) => C6_ReorgTruncatesTo

\* C9: Get(h) returns a block only from a log entry whose stored checksum is
\* the checksum of (h, payload), whose payload decodes and whose decoded
\* height is h; for an entry that fails one of the three it returns nil.
C9_GetVerifiesRecord ==
    Running =>
        \A h \in AllHeights :
            LET r == Get(cache, h)
                from == RecordFrom(cache, h)
                cs == SubSeq(cache.blocksFile, from + 1, from + ChecksumLen)
                data == SubSeq(cache.blocksFile, from + ChecksumLen + 1, RecordTo(cache, h))
                good == /\ cs = checksum(h, data)
                        /\ ~Unmarshal(data).err
                        /\ Unmarshal(data).block.Height = h
            IN /\ r.tag = "ok" => (Indexed(cache, h) /\ good /\ r.block = Unmarshal(data).block)
               /\ (Indexed(cache, h) /\ ~good) => (r.tag = "nil" /\ r.spawn)

\* A Get that met a record with a matching checksum and another height.
C9_Witness == Running /\ last.op = "Get" /\ last.ret = "height"

\* Gets that met a bad checksum, and a payload that does not decode.
C9_WitnessChecksum == Running /\ last.op = "Get" /\ last.ret = "checksum"

C9_WitnessUnmarshal == Running /\ last.op = "Get" /\ last.ret = "unmarshal"


\* The goroutine that Get starts is scheduled: its Lock is granted in the end
\* (sync.RWMutex holds back new readers while a writer waits).
FairSpec == Spec /\ WF_vars(\E i \in 1..MaxPending : Recover(i))

\* The record indexed for h holds the bytes Add wrote for the block added at h.
Unharmed(c, h) ==
    /\ Indexed(c, h)
    /\ added[h] # None
    /\ SubSeq(c.blocksFile, RecordFrom(c, h) + 1, RecordTo(c, h)) = Record(h, added[h])

ReadsRestored ==
    \A h \in Retained(cache) :
        Unharmed(cache, h) => (Get(cache, h).tag = "ok" /\ Get(cache, h).block = added[h])

\* C10 (as claimed, its finite part): a Get(h) that detects a corrupt record
\* returns nil and leaves the store as it is, handing h - RollbackDistance to a
\* recovery goroutine; the recovery step, when it runs, leaves the process
\* alive with nextBlock <= max(firstBlock, h - RollbackDistance) and a store
\* in which Get returns every unharmed record of [firstBlock, nextBlock).
C10_RecoveryRestoresReads ==
    /\ [][Len(pending') > Len(pending) =>
            /\ last'.op = "Get"
            /\ last'.ret \in {"read", "checksum", "unmarshal", "height"}
            /\ cache' = cache
            /\ pending' = Append(pending, last'.h - RollbackDistance)]_vars
    /\ [][Len(pending') < Len(pending) =>
            /\ last'.op = "Recover"
            /\ cache'.fault = "none"
            /\ cache'.nextBlock <= Max(cache'.firstBlock, last'.h)
            /\ ReadsRestored']_vars

\* The same for recoveries in runs where no call overlapped a Reset (used to
\* locate C10's failure).
SerialRecoveryRestoresReads ==
    [][(raced' = 0 /\ Len(pending') < Len(pending)) =>
            /\ last'.op = "Recover"
            /\ cache'.fault = "none"
            /\ cache'.nextBlock <= Max(cache'.firstBlock, last'.h)
            /\ ReadsRestored']_vars

\* Under fair scheduling a pending recovery runs unless the process ends.
RecoveryRuns == (Running /\ Len(pending) > 0) ~> (~Running \/ last.op = "Recover")

\* A recovery, started by a Get of a corrupt record, that cut the store back
\* to the rollback height and left a record below it.
C10_Witness ==
    /\ Running /\ ncorrupt > 0
    /\ last.op = "Recover"
    /\ cache.savedBlocks # <<>>
    /\ cache.nextBlock = last.h
    /\ cache.nextBlock > cache.firstBlock
    /\ Get(cache, cache.firstBlock).tag = "ok"


\* C11 (as claimed): every mutation of the store runs under the exclusive lock
\* and every read under the shared lock, so that no call of another thread
\* (a read, or another mutation) ever runs while a mutation is between two of
\* its statements. The calls that take the lock are single steps; raced
\* counts the calls that ran while Reset, which takes no lock, was between
\* its statements.
C11_NoCallInsideMutation == raced = 0

\* A store that holds nothing: no height, no index entry, no byte on disk.
EmptyStore(c) ==
    /\ c.firstBlock = c.nextBlock
    /\ c.starts = <<0>>
    /\ c.lengthsFile = <<>>
    /\ c.blocksFile = <<>>

\* C12: GetLatestHeight() is nextBlock - 1 for a store with blocks and -1 for
\* one with firstBlock = nextBlock; and on an empty store with firstBlock = s,
\* Add(s, b) makes Get(s) return b and GetLatestHeight() = s, and a following
\* Reorg(s) makes Get(s) nil and GetLatestHeight() = -1.
C12_LatestHeightEndToEnd ==
    Running =>
        /\ GetLatestHeight(cache) =
               IF cache.firstBlock = cache.nextBlock THEN -1 ELSE cache.nextBlock - 1
        /\ EmptyStore(cache) =>
               \A b \in Blocks :
                   b.Height = cache.firstBlock =>
                       LET s == cache.firstBlock
                           c1 == Add(cache, s, b).c
                           c2 == Reorg(c1, s)
                       IN /\ Add(cache, s, b).ret = "stored"
                          /\ Get(c1, s).tag = "ok" /\ Get(c1, s).block = b
                          /\ GetLatestHeight(c1) = s
                          /\ c2.fault = "none"
                          /\ Get(c2, s).tag = "nil"
                          /\ GetLatestHeight(c2) = -1

\* The end of the scenario: a store that was empty, got a block at firstBlock
\* by Add and lost it again by Reorg(firstBlock).
C12_Witness ==
    /\ Running /\ EmptyStore(cache)
    /\ last.op = "Reorg" /\ last.h = cache.firstBlock
    /\ nadd = 1
    /\ GetLatestHeight(cache) = -1

\* ------------------------------------------------------- LRUCache: the calls
\* The block cache left alone.
StoreIdle ==
    /\ cache = NewBlockCache(0)
    /\ pending = <<>>
    /\ reset = [pc |-> 0, startHeight |-> 0]
    /\ last = NoCall
    /\ added = [h \in Stored |-> None]
    /\ ncorrupt = 0
    /\ raced = 0
    /\ nadd = 0

Caps == (-1)..MaxCap

LruRunning == lru.made /\ lru.fault = "none"

Inside == {t \in Readers : getters[t].pc # 0}

RunKeys == {lruRef.run[i].key : i \in 1..Len(lruRef.run)}

\* Any call but a Put of one more key ends the run of Puts.
EndRun(r) == [lruRef EXCEPT !.r = r, !.run = <<>>, !.puts = FALSE]

CallNewLRUCache(capacity) ==
    /\ ~lru.made /\ lru.fault = "none"
    /\ lru' = NewLRUCache(capacity)
    /\ lruLast' = [NoLruCall EXCEPT !.op = "New", !.arg = capacity]
    /\ UNCHANGED <<getters, lruRef, storeVars, mfVars, syncVars>>

\* Put, Delete and Clear take the exclusive lock: no thread is inside Get.
CallPut(key, value) ==
    /\ LruRunning
    /\ Inside = {}
    /\ lru.cache[key] = 0 => lru.nelem < MaxElems
    /\ lru' = LruPut(lru, key, value)
    /\ lruRef' = LET r == RefPut(lruRef.r, lru.capacity, key, value)
                 IN IF lruRef.puts /\ key \notin RunKeys
                      THEN [lruRef EXCEPT !.r = r,
                               !.run = Append(@, [key |-> key, value |-> value])]
                      ELSE EndRun(r)
    /\ lruLast' = [NoLruCall EXCEPT !.op = "Put", !.key = key, !.arg = value,
                      !.dropped = {k \in Keys : lru.cache[k] # 0 /\ lru'.cache[k] = 0}]
    /\ UNCHANGED <<getters, storeVars, mfVars, syncVars>>

CallDelete(key) ==
    /\ LruRunning
    /\ Inside = {}
    /\ lru' = LruDelete(lru, key)
    /\ lruRef' = EndRun(RefDelete(lruRef.r, key))
    /\ lruLast' = [NoLruCall EXCEPT !.op = "Delete", !.key = key]
    /\ UNCHANGED <<getters, storeVars, mfVars, syncVars>>

CallClear ==
    /\ LruRunning
    /\ Inside = {}
    /\ lru' = LruClear(lru)
    /\ lruRef' = EndRun(NoRef)
    /\ lruLast' = [NoLruCall EXCEPT !.op = "Clear"]
    /\ UNCHANGED <<getters, storeVars, mfVars, syncVars>>

\* Get takes the shared lock, so other threads may be inside Get too. It
\* looks the key up and, unless MoveToFront has nothing to move, goes on to
\* the pointer assignments of List.move.
GetBegin(t, key) ==
    /\ LruRunning
    /\ getters[t].pc = 0
    /\ \A u \in Readers : u < t => getters[u].pc # 0
    /\ Inside # {} => lruRef.overlapped < MaxOverlaps
    /\ LET e == lru.cache[key]
           g == RefGet(lruRef.r, key)
           result == [NoLruCall EXCEPT !.op = "Get", !.key = key,
                         !.refok = g.ok, !.refvalue = g.value]
       IN /\ lruRef' = [EndRun(g.r) EXCEPT !.overlapped = IF Inside # {} THEN @ + 1 ELSE @]
          /\ IF e = 0
               THEN /\ lruLast' = result
                    /\ UNCHANGED getters
             ELSE IF MovesNothing(lru, e)
               THEN /\ lruLast' = [result EXCEPT !.ok = TRUE, !.value = lru.entry[e].value]
                    /\ UNCHANGED getters
             ELSE /\ getters' = [getters EXCEPT ![t] =
                                    [pc |-> 1, e |-> e, key |-> key,
                                     refok |-> g.ok, refvalue |-> g.value]]
                  /\ UNCHANGED lruLast
    /\ UNCHANGED <<lru, storeVars, mfVars, syncVars>>

\* One pointer assignment of List.move; after the last one Get returns the
\* entry's value.
GetMove(t) ==
    /\ LruRunning
    /\ getters[t].pc # 0
    /\ LET g == getters[t]
       IN /\ lru' = MoveStep(lru, g.e, root, g.pc)
          /\ IF g.pc < MoveSteps
               THEN /\ getters' = [getters EXCEPT ![t].pc = @ + 1]
                    /\ UNCHANGED lruLast
               ELSE /\ getters' = [getters EXCEPT ![t] = Outside]
                    /\ lruLast' = [NoLruCall EXCEPT !.op = "Get", !.key = g.key,
                                      !.ok = TRUE, !.value = lru.entry[g.e].value,
                                      !.refok = g.refok, !.refvalue = g.refvalue]
    /\ UNCHANGED <<lruRef, storeVars, mfVars, syncVars>>

LruSpecInit == StoreIdle /\ LruInit /\ MfInit /\ SyncIdle /\ SmInit

LruNext ==
    \/ \E n \in Caps : CallNewLRUCache(n)
    \/ \E k \in Keys, v \in Values : CallPut(k, v)
    \/ \E k \in Keys : CallDelete(k)
    \/ CallClear
    \/ \E t \in Readers, k \in Keys : GetBegin(t, k)
    \/ \E t \in Readers : GetMove(t)

LruSpec == LruSpecInit /\ [][LruNext]_vars

\* The keys of the list from the front to the back (as far as len tells).
RECURSIVE KeysFrom(_, _, _)
KeysFrom(l, e, n) ==
    IF n = 0 \/ e = root \/ e = NilPtr THEN <<>>
    ELSE <<l.entry[e].key>> \o KeysFrom(l, l.next[e], n - 1)

ListKeys(l) == KeysFrom(l, l.next[root], l.len)

Held(l) == {k \in Keys : l.cache[k] # 0}

\* The cache holds what the reference holds, with the same values, and its
\* list has the keys from the latest access to the oldest.
Agree(l, r) ==
    /\ Held(l) = RefHeld(r)
    /\ l.len = Cardinality(RefHeld(r))
    /\ Len(ListKeys(l)) = l.len
    /\ \A k \in Held(l) :
          /\ l.entry[l.cache[k]].key = k
          /\ l.entry[l.cache[k]].value = r.value[k]
          /\ ListKeys(l)[l.len + 1 - r.stamp[k]] = k

LruSerial == LruRunning /\ Inside = {} /\ lruRef.overlapped = 0

\* What Put(key, value) does to a cache l that agrees with the reference r.
PutEffect(l, r, key, value) ==
    LET l2 == LruPut(l, key, value)
        full == l.len = l.capacity
    IN /\ l2.fault = "none"
       /\ l2.entry[l2.cache[key]] = [key |-> key, value |-> value]
       /\ ListKeys(l2)[1] = key
       /\ \A k \in Held(l2) \ {key} : l2.entry[l2.cache[k]] = l.entry[l.cache[k]]
       /\ Held(l2) = IF key \in Held(l) THEN Held(l)
                     ELSE IF full THEN (Held(l) \ {RefOldest(r)}) \cup {key}
                     ELSE Held(l) \cup {key}
       /\ Agree(l2, RefPut(r, l.capacity, key, value))

\* C13: in every run of Get, Put, Delete and Clear made one call at a time,
\* the cache holds what a reference LRU holds after the same calls, in the
\* same order of last access, and Get returned what the reference returns; a
\* Put of a new key into a full cache drops exactly the key whose last access
\* is the oldest, and a Put of a key held replaces the value, drops nothing
\* and makes the key the most recently used.
C13_PutEvictsOldestAccess ==
    LruSerial =>
        /\ Agree(lru, lruRef.r)
        /\ lruLast.op = "Get" =>
              /\ lruLast.ok = lruLast.refok
              /\ lruLast.value = lruLast.refvalue
        /\ lruLast.op = "Put" =>
              /\ Cardinality(lruLast.dropped) <= 1
              /\ ListKeys(lru)[1] = lruLast.key
        /\ \A k \in Keys, v \in Values :
              (k \in Held(lru) \/ lru.nelem < MaxElems) =>
                  PutEffect(lru, lruRef.r, k, v)

\* A Put into a full cache dropped the key put second, because the key put
\* first had been read since.
C13_Witness ==
    /\ LruSerial
    /\ lruLast.op = "Put"
    /\ lru.capacity = 2 /\ lru.len = 2
    /\ lru.inlist[1] /\ ~lru.inlist[2]
    /\ lruLast.dropped = {lru.entry[2].key}
    /\ lru.cache[lruLast.key] = 3

\* C14: when the only calls since construction are Puts of N+1 keys all
\* different, N the capacity, a Get of the first key misses and a Get of each
\* of the keys 2..N+1 returns the value put.
C14_FirstOfNPlusOneEvicted ==
    (LruRunning /\ lruRef.puts /\ Len(lruRef.run) = lru.capacity + 1) =>
        /\ ~LruGet(lru, lruRef.run[1].key).ok
        /\ \A i \in 2..Len(lruRef.run) :
              /\ LruGet(lru, lruRef.run[i].key).ok
              /\ LruGet(lru, lruRef.run[i].key).value = lruRef.run[i].value

C14_Witness ==
    /\ LruRunning /\ lruRef.puts
    /\ lru.capacity = MaxCap
    /\ Len(lruRef.run) = lru.capacity + 1
    /\ lruLast.op = "Put"
    /\ LruGet(lru, lruLast.key).ok

\* C15 (as claimed): at no time are two threads inside an operation that
\* modifies the recency list.
C15_OneThreadModifiesTheList == Cardinality(Inside) <= 1

\* Two Gets overlapped and left a list that is not the reference's order.
RacedListDiffers == (LruRunning /\ Inside = {}) => Agree(lru, lruRef.r)

Empty(l) ==
    /\ l.len = 0
    /\ ListKeys(l) = <<>>
    /\ \A k \in Keys : ~LruGet(l, k).ok

\* C16: NewLRUCache(capacity) with capacity <= 0 panics and leaves no cache;
\* with capacity >= 1 it returns an empty cache of that capacity, and no
\* cache ever has a capacity below 1.
C16_NewLRUCacheChecksCapacity ==
    /\ lru.made => lru.capacity >= 1
    /\ lruLast.op = "New" =>
          IF lruLast.arg <= 0
            THEN ~lru.made /\ lru.fault = "panic"
            ELSE /\ lru.made /\ lru.fault = "none"
                 /\ lru.capacity = lruLast.arg
                 /\ Empty(lru)

C16_Witness ==
    /\ lruLast.op = "New"
    /\ lruLast.arg = 0
    /\ ~lru.made

\* ------------------------------------------------- MerkleFrontier: the calls
BlockTxs == UNION {SeqsOfLen(Txs, n) : n \in 0..MaxBlockTxs}

ProofIndexes == (-1)..(MaxLeaves + 1)

LeafCount == Len(mf.Leaves)

CallAddTransaction(tx) ==
    /\ LeafCount < MaxLeaves
    /\ mf' = AddTransaction(mf, tx)
    /\ mfLast' = [NoMfCall EXCEPT !.op = "AddTransaction", !.before = mf]
    /\ UNCHANGED <<storeVars, lruVars, syncVars>>

CallAddBlock(transactions) ==
    /\ LeafCount + Len(transactions) <= MaxLeaves
    /\ mf' = AddBlock(mf, transactions)
    /\ mfLast' = [NoMfCall EXCEPT !.op = "AddBlock", !.before = mf]
    /\ UNCHANGED <<storeVars, lruVars, syncVars>>

CallGetRoot ==
    /\ mfLast' = [NoMfCall EXCEPT !.op = "GetRoot", !.before = mf,
                     !.err = GetRoot(mf).err, !.value = GetRoot(mf).value]
    /\ UNCHANGED <<mf, storeVars, lruVars, syncVars>>

CallGenerateProof(index) ==
    /\ mfLast' = [NoMfCall EXCEPT !.op = "GenerateProof", !.before = mf,
                     !.index = index,
                     !.err = GenerateProof(mf, index).err,
                     !.proof = GenerateProof(mf, index).proof]
    /\ UNCHANGED <<mf, storeVars, lruVars, syncVars>>

MerkleSpecInit == StoreIdle /\ LruInit /\ MfInit /\ SyncIdle /\ SmInit

MerkleNext ==
    \/ \E tx \in Txs : CallAddTransaction(tx)
    \/ \E txs \in BlockTxs : CallAddBlock(txs)
    \/ CallGetRoot
    \/ \E i \in ProofIndexes : CallGenerateProof(i)

MerkleSpec == MerkleSpecInit /\ [][MerkleNext]_vars

\* C17 (as claimed): GetRoot fails with the empty-tree error exactly when the
\* frontier has no leaf, and with one leaf or more it returns a root that is
\* not the empty string.
C17_GetRootFailsIffEmpty ==
    /\ GetRoot(mf).err = "empty" <=> LeafCount = 0
    /\ LeafCount >= 1 => GetRoot(mf).err = "" /\ GetRoot(mf).value # <<>>

\* What holds of C17: the error comes exactly for the frontier without leaf.
GetRootFailsIffNoLeaf ==
    /\ GetRoot(mf).err = "empty" <=> LeafCount = 0
    /\ LeafCount >= 1 => GetRoot(mf).err = ""
    /\ LeafCount >= 2 => GetRoot(mf).value # <<>>

\* C18 (as claimed): with exactly one leaf the root is the hash of the leaf:
\* the leaf combined with no right sibling, or with the hash of the empty
\* string.
C18_SingleLeafRootIsHash ==
    LeafCount = 1 =>
        LET leaf == mf.Leaves[1].Value
        IN \/ GetRoot(mf).value = combineHashes(leaf, NilNode)
           \/ GetRoot(mf).value = combineHashes(leaf, Node(Sha256Hex(<<>>)))

\* With one leaf the root is the leaf's value as it was added.
SingleLeafRootIsLeaf == LeafCount = 1 => GetRoot(mf).value = mf.Leaves[1].Value

\* The replay of a sibling path from a leaf.
RECURSIVE Replay(_, _, _)
Replay(current, index, proof) ==
    IF proof = <<>> THEN current
    ELSE Replay(IF index % 2 = 0 THEN Sha256Hex(current \o Head(proof))
                                 ELSE Sha256Hex(Head(proof) \o current),
                index \div 2, Tail(proof))

\* C19: for each leaf index i of a frontier with leaves, GenerateProof(i)
\* succeeds and its path, replayed from leaf i, gives the root GetRoot
\* returns; with 4 leaves the path of index 0 has 2 entries.
C19_ProofReplaysToRoot ==
    /\ \A i \in 0..(LeafCount - 1) :
          /\ GenerateProof(mf, i).err = ""
          /\ GetRoot(mf).err = ""
          /\ Replay(mf.Leaves[i + 1].Value, i, GenerateProof(mf, i).proof)
                = GetRoot(mf).value
    /\ LeafCount = 4 => Len(GenerateProof(mf, 0).proof) = 2
    /\ (mfLast.op = "GenerateProof" /\ mfLast.err = "") =>
          Replay(mf.Leaves[mfLast.index + 1].Value, mfLast.index, mfLast.proof)
              = GetRoot(mf).value

C19_Witness ==
    /\ mfLast.op = "GenerateProof"
    /\ LeafCount = 4
    /\ mfLast.index = 0
    /\ mfLast.err = ""
    /\ Len(mfLast.proof) = 2

\* A path with an absent sibling: the third of three leaves.
C19_WitnessOdd ==
    /\ mfLast.op = "GenerateProof"
    /\ LeafCount = 3
    /\ mfLast.index = 2
    /\ mfLast.proof[1] = <<>>

\* C20: GenerateProof fails with the out-of-range error and without a proof
\* for every index below 0 and every index from the number of leaves on, and
\* the call leaves the leaves and the root as they were.
C20_ProofIndexOutOfRange ==
    /\ \A index \in ProofIndexes :
          (index < 0 \/ index >= LeafCount) =>
              GenerateProof(mf, index) = [err |-> "range", proof |-> <<>>]
    /\ mfLast.op = "GenerateProof" =>
          /\ mf = mfLast.before
          /\ (mfLast.index < 0 \/ mfLast.index >= LeafCount) =>
                mfLast.err = "range" /\ mfLast.proof = <<>>

C20_Witness ==
    /\ mfLast.op = "GenerateProof"
    /\ LeafCount >= 1
    /\ mfLast.index = LeafCount
    /\ mfLast.err = "range"

C20_WitnessEmpty ==
    /\ mfLast.op = "GenerateProof"
    /\ LeafCount = 0
    /\ mfLast.index = 0
    /\ mfLast.err = "range"

\* The levels of the construction that have a node without right sibling:
\* every such node's parent is as the claim says (Padded), or is the hash of
\* the node alone (not Padded).
RECURSIVE TrailingNodes(_, _)
TrailingNodes(nodes, Padded) ==
    IF Len(nodes) <= 1 THEN TRUE
    ELSE LET parents == buildParentLevel(nodes)
             trailing == nodes[Len(nodes)].Value
         IN /\ Len(nodes) % 2 = 1 =>
                  parents[Len(parents)].Value =
                      IF Padded THEN Sha256Hex(trailing \o hashEmptyNode)
                      ELSE Sha256Hex(trailing)
            /\ TrailingNodes(parents, Padded)

\* The entries of a sibling path recorded where no sibling exists are all
\* equal to absent.
RECURSIVE AbsentSiblings(_, _, _, _)
AbsentSiblings(nodes, index, proof, absent) ==
    IF Len(nodes) <= 1 \/ proof = <<>> THEN TRUE
    ELSE /\ XorOne(index) >= Len(nodes) => Head(proof) = absent
         /\ AbsentSiblings(buildParentLevel(nodes), index \div 2, Tail(proof), absent)

\* C21 (as claimed): at every level of the construction a trailing node
\* without sibling has the parent H(node || H("")), and GenerateProof records
\* H("") where no sibling exists.
C21_TrailingNodePaddedWithEmptyHash ==
    /\ TrailingNodes(mf.Leaves, TRUE)
    /\ \A i \in 0..(LeafCount - 1) :
          AbsentSiblings(mf.Leaves, i, GenerateProof(mf, i).proof, hashEmptyNode)

\* What the frontier does: the trailing node is hashed alone, and the path
\* has the empty string where no sibling exists.
TrailingNodeHashedAlone ==
    /\ TrailingNodes(mf.Leaves, FALSE)
    /\ \A i \in 0..(LeafCount - 1) :
          AbsentSiblings(mf.Leaves, i, GenerateProof(mf, i).proof, <<>>)

\* The frontier's leaves as the node list of an indexed tree, under the
\* frontier's root.
FrontierAsTree ==
    [RootHash |-> GetRoot(mf).value,
     Nodes |-> [i \in 1..LeafCount |-> MerkleNode(mf.Leaves[i].Value, i - 1)]]

\* C22 (as claimed): every leaf of the frontier, recombined by the indexed
\* tree's rule (IsPartOf) over the same leaves, gives the root the frontier
\* computed.
C22_OneCombineRule ==
    \A i \in 1..LeafCount :
        IsPartOf(FrontierAsTree.Nodes[i], GetRoot(mf).value, FrontierAsTree)

\* ------------------------------------------- the database and /merkle/sync
\* The data of tree nodes.
NodeData == {<<Char(1)>>, <<Char(2)>>}

\* The node list laid out as a heap over n positions (parent of position p
\* at (p - 1) / 2), the leaves' data given by f: an inner position holds the
\* hash of its children, a missing right child taken as hashEmptyNode.
RECURSIVE HeapData(_, _, _)
HeapData(f, n, p) ==
    IF 2 * p + 1 >= n THEN f[p]
    ELSE hashFunction(HeapData(f, n, 2 * p + 1) \o
                      (IF 2 * p + 2 < n THEN HeapData(f, n, 2 * p + 2)
                       ELSE hashEmptyNode))

HeapTree(f, n) ==
    [RootHash |-> HeapData(f, n, 0),
     Nodes |-> [i \in 1..n |-> MerkleNode(HeapData(f, n, i - 1), i - 1)]]

HeapTrees ==
    {HeapTree(f, n) : f \in [0..(MaxNodes - 1) -> NodeData], n \in 1..MaxNodes}

\* Trees of any other content: nodes whose Index is not their position, a
\* RootHash that is no recombination.
LooseNodes ==
    {MerkleNode(<<Char(1)>>, 0), MerkleNode(<<Char(2)>>, 2),
     MerkleNode(<<Char(2)>>, MaxNodes + 2)}

LooseTrees ==
    {[RootHash |-> <<Char(1)>>, Nodes |-> nodes] :
        nodes \in UNION {SeqsOfLen(LooseNodes, n) : n \in 0..(MaxNodes - 2)}}

Trees == HeapTrees \cup LooseTrees

\* What the row id = 1 of merkle_tree may hold when the process starts.
TreeRows ==
    {NoRow, [present |-> TRUE, data |-> NullNodesRow],
     [present |-> TRUE, data |-> ArrayRow]}
        \cup {[present |-> TRUE, data |-> MarshalTree(t)] : t \in Trees}

\* The requests: the root parameter not given, given empty, or a text; page
\* and pageSize not given, no number, or an int.
RootParams ==
    {NotGiven, TextParam(<<>>)}
        \cup {TextParam(r) :
                 r \in {<<Char(1)>>,
                        HeapTree([p \in 0..(MaxNodes - 1) |-> <<Char(1)>>], 2).RootHash}}

\* page and pageSize as sent together: none usable (page no number, pageSize
\* not given), small ones, and a page whose product with pageSize leaves
\* the range of int.
Pagings ==
    {[page |-> TextParam(<<Char(1)>>), pageSize |-> NotGiven],
     [page |-> IntParam(0), pageSize |-> IntParam(2)],
     [page |-> IntParam(1), pageSize |-> IntParam(2)],
     [page |-> IntParam(2 ^ (IntBits - 2)), pageSize |-> IntParam(2)],
     [page |-> IntParam(2 ^ (IntBits - 2)), pageSize |-> IntParam(4)]}

Requests ==
    {[root |-> r, page |-> pg.page, pageSize |-> pg.pageSize] :
        r \in RootParams, pg \in Pagings}

\* Which of the handler's two queries fails: none, or one of them.
QueryFailures ==
    {[tree |-> FALSE, frontier |-> FALSE], [tree |-> TRUE, frontier |-> FALSE],
     [tree |-> FALSE, frontier |-> TRUE]}

SyncSpecInit ==
    /\ StoreIdle /\ LruInit /\ MfInit /\ SmInit
    /\ db \in {[NoDb EXCEPT !.tree = row] : row \in TreeRows}
    /\ sync = NoSync

\* InitializeDB (the schemas are there: CREATE TABLE IF NOT EXISTS).
InitializeDB ==
    /\ ~db.conn
    /\ db' = [db EXCEPT !.conn = TRUE]
    /\ sync' = [NoSync EXCEPT !.op = "InitializeDB", !.before = db]
    /\ UNCHANGED <<sm, storeVars, lruVars, mfVars>>

CallUpdateMerkleTreeInDB(tree, execFails) ==
    /\ db' = UpdateMerkleTreeInDB(db, tree, execFails).d
    /\ sync' = [NoSync EXCEPT !.op = "UpdateMerkleTreeInDB", !.before = db,
                   !.tree = tree,
                   !.err = UpdateMerkleTreeInDB(db, tree, execFails).err]
    /\ UNCHANGED <<sm, storeVars, lruVars, mfVars>>

CallStoreMerkleFrontier(blockHeight, frontierData, execFails) ==
    /\ db' = StoreMerkleFrontier(db, blockHeight, frontierData, execFails).d
    /\ sync' = [NoSync EXCEPT !.op = "StoreMerkleFrontier", !.before = db,
                   !.err = StoreMerkleFrontier(db, blockHeight, frontierData, execFails).err]
    /\ UNCHANGED <<sm, storeVars, lruVars, mfVars>>

\* One request served by MerkleSyncHandler; each of its two queries may fail.
CallMerkleSyncHandler(req, fails) ==
    /\ sync' = [NoSync EXCEPT !.op = "MerkleSyncHandler", !.before = db,
                   !.req = req, !.resp = MerkleSyncHandler(db, req, fails),
                   !.err = IF fails.frontier THEN "frontier query failed" ELSE ""]
    /\ UNCHANGED <<db, sm, storeVars, lruVars, mfVars>>

SyncNext ==
    \/ InitializeDB
    \/ \E t \in Trees, x \in BOOLEAN : CallUpdateMerkleTreeInDB(t, x)
    \/ \E h \in SnapshotHeights, f \in Snapshots, x \in BOOLEAN :
          CallStoreMerkleFrontier(h, f, x)
    \/ \E req \in Requests, fails \in QueryFailures : CallMerkleSyncHandler(req, fails)

SyncSpec == SyncSpecInit /\ [][SyncNext]_vars

Served == sync.op = "MerkleSyncHandler"

\* C23: a request without root parameter, or with an empty one, gets the
\* client error 400; the handler reads neither the tree row nor the frontier
\* table for it, and the database is as it was.
C23_MissingRootIsClientError ==
    /\ \A req \in Requests, fails \in QueryFailures :
          QueryGet(req.root) = <<>> =>
              /\ MerkleSyncHandler(db, req, fails).status = StatusBadRequest
              /\ MerkleSyncHandler(db, req, fails).reads = <<>>
    /\ (Served /\ QueryGet(sync.req.root) = <<>>) =>
          /\ sync.resp.status = StatusBadRequest
          /\ sync.resp.reads = <<>>
          /\ db = sync.before

C23_Witness ==
    /\ Served
    /\ sync.req.root = NotGiven
    /\ db.conn /\ db.tree.present
    /\ sync.resp.status = StatusBadRequest

\* The root parameter given, and empty.
C23_WitnessEmpty ==
    /\ Served
    /\ sync.req.root = TextParam(<<>>)
    /\ db.conn /\ db.tree.present
    /\ sync.resp.status = StatusBadRequest

\* The stored tree loads and its root is the client's.
SameRoot(d, req) ==
    /\ QueryGet(req.root) # <<>>
    /\ LoadServerMerkleTree(d, FALSE).err = ""
    /\ Root(LoadServerMerkleTree(d, FALSE).tree) = QueryGet(req.root)

SnapshotExists(d) == \E h \in SnapshotHeights : d.frontiers[h].present

\* The response the claim describes for equal roots.
EchoesSnapshot(d, resp) ==
    /\ resp.status = StatusOK
    /\ resp.Deltas = <<>>
    /\ resp.Proof = <<>>
    /\ resp.Incremental <=> SnapshotExists(d)
    /\ SnapshotExists(d) => resp.Frontier = d.frontiers[MaxBlockHeight(d)].data

\* C24 (as claimed): whenever the client's root is the server's, the response
\* has no deltas and no proofs whatever page and pageSize are, carries the
\* newest snapshot if there is one, and its flag tells whether there is one.
C24_SameRootEchoesSnapshot ==
    \A req \in Requests, fails \in QueryFailures :
        (~fails.tree /\ SameRoot(db, req)) =>
            EchoesSnapshot(db, MerkleSyncHandler(db, req, fails))

\* What holds of C24: the same, when the query for the snapshot succeeds.
SameRootEchoesSnapshotRead ==
    \A req \in Requests, fails \in QueryFailures :
        (~fails.tree /\ ~fails.frontier /\ SameRoot(db, req)) =>
            EchoesSnapshot(db, MerkleSyncHandler(db, req, fails))

Min(a, b) == IF a <= b THEN a ELSE b

\* deltas[page*pageSize : page*pageSize+pageSize], empty from the end on.
PageOf(deltas, page, pageSize) ==
    SubSeq(deltas, page * pageSize + 1, Min(page * pageSize + pageSize, Len(deltas)))

RECURSIVE PagesUpTo(_, _, _)
PagesUpTo(deltas, pageSize, page) ==
    IF page < 0 THEN <<>>
    ELSE PagesUpTo(deltas, pageSize, page - 1) \o
             PaginateDeltas(deltas, page, pageSize).deltas

\* The pages and page sizes tried: small ones, and the largest.
Pages == (0..MaxNodes) \cup {2 ^ (IntBits - 2), MaxInt}

PageSizes == (1..(MaxNodes + 1)) \cup {MaxInt}

\* The full delta list of the stored tree against a client root: the data of
\* the nodes GetNodesNotIn returns.
FullDeltas(d, localRoot) ==
    LET missing == GetNodesNotIn(LoadServerMerkleTree(d, FALSE).tree, localRoot)
    IN [i \in 1..Len(missing) |-> missing[i].Data]

ClientRoots == {QueryGet(r) : r \in RootParams} \ {<<>>}

Loads(d) == LoadServerMerkleTree(d, FALSE).err = ""

\* Paging as the claim describes it, for the pages and the sizes of P and S.
Paginates(deltas, P, S) ==
    /\ \A page \in P, pageSize \in S :
          LET r == PaginateDeltas(deltas, page, pageSize)
          IN /\ ~r.panic
             /\ r.deltas = PageOf(deltas, page, pageSize)
             /\ Len(r.deltas) =
                    Max(0, Min(pageSize, Len(deltas) - page * pageSize))
    /\ \A pageSize \in S : PagesUpTo(deltas, pageSize, Len(deltas)) = deltas

\* C25 (as claimed): for every page >= 0 and every pageSize > 0 the deltas
\* returned are the slice of the full list from page*pageSize to
\* page*pageSize+pageSize, their number is
\* max(0, min(pageSize, total - page*pageSize)), and the pages 0, 1, 2, ...
\* put together are the full list.
C25_PageIsSliceOfDeltas ==
    Loads(db) => \A r \in ClientRoots : Paginates(FullDeltas(db, r), Pages, PageSizes)

\* What holds of C25: the same for the pages and sizes whose product and sum
\* stay within int.
PageIsSliceWithinInt ==
    Loads(db) =>
        \A r \in ClientRoots :
            Paginates(FullDeltas(db, r), 0..MaxNodes, 1..(MaxNodes + 1))

\* C26: the nodes GetNodesNotIn returns for a client root are the nodes of
\* the stored tree that IsPartOf rejects for that root, each once, in the
\* order of the node list; and the deltas of a response that holds the whole
\* list are the data of these nodes.
C26_DeltaIsNodesNotPartOf ==
    Loads(db) =>
        LET t == LoadServerMerkleTree(db, FALSE).tree
        IN /\ \A r \in ClientRoots :
                 GetNodesNotIn(t, r) =
                     SelectSeq(t.Nodes, LAMBDA n : ~IsPartOf(n, r, t))
           /\ (Served /\ sync.resp.status = StatusOK /\ db = sync.before
                  /\ sync.resp.ServerRoot # QueryGet(sync.req.root)
                  /\ sync.resp.Page = 0 /\ sync.resp.PageSize = DefaultPageSize) =>
                 LET rejected == SelectSeq(t.Nodes,
                                     LAMBDA n : ~IsPartOf(n, QueryGet(sync.req.root), t))
                 IN sync.resp.Deltas = [i \in 1..Len(rejected) |-> rejected[i].Data]

\* A response whose delta leaves out a node that is part of the client's root
\* and has the nodes that are not.
C26_Witness ==
    /\ Served /\ sync.resp.status = StatusOK /\ db = sync.before
    /\ sync.resp.ServerRoot # QueryGet(sync.req.root)
    /\ sync.resp.Page = 0 /\ sync.resp.PageSize = DefaultPageSize
    /\ sync.resp.Deltas # <<>>
    /\ Len(sync.resp.Deltas) < Len(LoadServerMerkleTree(db, FALSE).tree.Nodes)

\* The tree the claim is about: node i at position i, the root at index 0
\* with RootHash its data, every node with children the hash of its
\* children.
Recombined(t) ==
    /\ t.Nodes # <<>>
    /\ \A i \in 1..Len(t.Nodes) : t.Nodes[i].Index = i - 1
    /\ t.RootHash = t.Nodes[1].Data
    /\ \A p \in 0..(Len(t.Nodes) - 1) :
          2 * p + 1 < Len(t.Nodes) =>
              t.Nodes[p + 1].Data =
                  hashFunction(t.Nodes[2 * p + 2].Data \o
                               (IF 2 * p + 2 < Len(t.Nodes) THEN t.Nodes[2 * p + 3].Data
                                ELSE hashEmptyNode))

\* The replay of a proof's hashes from a node's data: the node on the left
\* at the indexes in Left. 
RECURSIVE ReplayHashes(_, _, _, _)
ReplayHashes(current, index, hashes, Left) ==
    IF hashes = <<>> THEN current
    ELSE ReplayHashes(IF index \in Left THEN hashFunction(current \o Head(hashes))
                                       ELSE hashFunction(Head(hashes) \o current),
                      (index - 1) \div 2, Tail(hashes), Left)

EvenIndexes == {i \in 0..(2 * MaxNodes) : i % 2 = 0}

OddIndexes == {i \in 0..(2 * MaxNodes) : i % 2 = 1}

\* C27 (as claimed): in a stored tree that is the recombination of its nodes,
\* the proof GenerateProof computes for a node, replayed from the node's
\* data, gives RootHash (with the node on the left at even indexes, as
\* IsPartOf has it, or at odd ones, as the children lie in the array).
C27_ProofReachesRootHash ==
    (Loads(db) /\ Recombined(LoadServerMerkleTree(db, FALSE).tree)) =>
        LET t == LoadServerMerkleTree(db, FALSE).tree
        IN \A i \in 1..Len(t.Nodes) :
              LET proof == TreeGenerateProof(t, t.Nodes[i])
              IN \/ ReplayHashes(t.Nodes[i].Data, proof.Index, proof.Hashes, EvenIndexes)
                        = t.RootHash
                 \/ ReplayHashes(t.Nodes[i].Data, proof.Index, proof.Hashes, OddIndexes)
                        = t.RootHash

\* C29 (as claimed): after UpdateMerkleTreeInDB(t) reports success,
\* LoadServerMerkleTree returns t: the same RootHash and the same nodes in
\* order, whether the row existed before or not.
C29_UpdateThenLoadIsSameTree ==
    /\ \A t \in Trees :
          UpdateMerkleTreeInDB(db, t, FALSE).err = "" =>
              LoadServerMerkleTree(UpdateMerkleTreeInDB(db, t, FALSE).d, FALSE)
                  = [err |-> "", tree |-> t]
    /\ (sync.op = "UpdateMerkleTreeInDB" /\ sync.err = "") =>
          LoadServerMerkleTree(db, FALSE) = [err |-> "", tree |-> sync.tree]

\* What holds of C29: the round trip when the row is there before the call.
UpdateThenLoadOverRow ==
    db.tree.present =>
        \A t \in Trees :
            UpdateMerkleTreeInDB(db, t, FALSE).err = "" =>
                LoadServerMerkleTree(UpdateMerkleTreeInDB(db, t, FALSE).d, FALSE)
                    = [err |-> "", tree |-> t]
\* ------------------------------------------------------------ SyncManager
\* ProcessBlock: the error of GetBlockData if it fails, else the error of
\* UpdateMerkleTree if it fails, else nil. What the two calls return is open.
ProcessBlock(blockHeight, fetchErr, updateErr) ==
    IF fetchErr # "" THEN fetchErr
    ELSE IF updateErr # "" THEN updateErr
    ELSE ""

FetchOutcomes == {"", "failed to fetch block data"}

UpdateOutcomes == {"", "failed to update Merkle tree"}

LoopConditionExclusive(height, endHeight) == height < endHeight
\* The condition of the loop of SyncNewBlocks.
LoopCondition(height, endHeight) == height <= endHeight

SyncManagerInit ==
    /\ StoreIdle /\ LruInit /\ MfInit /\ SyncIdle
    /\ sm = NoRun

\* SyncNewBlocks(startHeight, endHeight) is entered: height := startHeight.
CallSyncNewBlocks(startHeight, endHeight) ==
    /\ sm.pc \in {"idle", "returned"}
    /\ sm' = [NoRun EXCEPT !.pc = "loop", !.startHeight = startHeight,
                 !.endHeight = endHeight, !.height = startHeight]
    /\ UNCHANGED <<db, sync, storeVars, lruVars, mfVars>>

\* One turn of the loop: ProcessBlock(height), and return on its error.
SyncProcessBlock(fetchErr, updateErr) ==
    /\ sm.pc = "loop"
    /\ LoopCondition(sm.height, sm.endHeight)
    /\ LET err == ProcessBlock(sm.height, fetchErr, updateErr)
       IN sm' = [sm EXCEPT
                    !.processed = Append(@, [height |-> sm.height, err |-> err]),
                    !.height = IF err = "" THEN WrapInt(@ + 1) ELSE @,
                    !.err = err,
                    !.pc = IF err = "" THEN "loop" ELSE "returned"]
    /\ UNCHANGED <<db, sync, storeVars, lruVars, mfVars>>

\* The loop ends: return nil.
SyncCompleted ==
    /\ sm.pc = "loop"
    /\ ~LoopCondition(sm.height, sm.endHeight)
    /\ sm' = [sm EXCEPT !.pc = "returned", !.err = ""]
    /\ UNCHANGED <<db, sync, storeVars, lruVars, mfVars>>

SyncManagerNext ==
    \/ \E s \in 0..MaxSyncHeight, e \in 0..MaxSyncHeight : CallSyncNewBlocks(s, e)
    \/ \E f \in FetchOutcomes, u \in UpdateOutcomes : SyncProcessBlock(f, u)
    \/ SyncCompleted

SyncManagerSpec == SyncManagerInit /\ [][SyncManagerNext]_vars

\* C28: the heights ProcessBlock is called on are startHeight, startHeight+1,
\* ... in this order, none skipped, none twice, none above endHeight; every
\* call but the last succeeded; a call that fails is the last one and its
\* error is the one returned; a run that returns nil has processed the whole
\* range, which is nothing when startHeight > endHeight.
C28_AscendingUntilFirstFailure ==
    LET n == Len(sm.processed)
    IN /\ \A i \in 1..n :
             /\ sm.processed[i].height = sm.startHeight + i - 1
             /\ sm.processed[i].height <= sm.endHeight
             /\ i < n => sm.processed[i].err = ""
       /\ (n > 0 /\ sm.processed[n].err # "") =>
             sm.pc = "returned" /\ sm.err = sm.processed[n].err
       /\ (sm.pc = "returned" /\ sm.err # "") =>
             n > 0 /\ sm.processed[n].err = sm.err
       /\ (sm.pc = "returned" /\ sm.err = "") =>
             /\ n = Max(0, sm.endHeight - sm.startHeight + 1)
             /\ \A i \in 1..n : sm.processed[i].err = ""
       /\ (sm.pc = "returned" /\ sm.startHeight > sm.endHeight) =>
             n = 0 /\ sm.err = ""

\* A run that failed after two heights, with heights of the range left.
C28_Witness ==
    /\ sm.pc = "returned" /\ sm.err # ""
    /\ Len(sm.processed) >= 3
    /\ sm.processed[Len(sm.processed)].height < sm.endHeight

\* A run over an empty range.
C28_WitnessEmptyRange ==
    /\ sm.pc = "returned" /\ sm.startHeight > sm.endHeight

\* A run that processed its whole range.
C28_WitnessWholeRange ==
    /\ sm.pc = "returned" /\ sm.err = ""
    /\ Len(sm.processed) = MaxSyncHeight + 1
\* ------------------------------------------------- the postmortem copies
\* The offsets of the records of a lengths file, as NewBlockCache reads them.
RECURSIVE StartsOf(_, _)
StartsOf(lengths, offset) ==
    IF Len(lengths) < LengthEntryLen THEN <<offset>>
    ELSE <<offset>> \o
         StartsOf(SubSeq(lengths, LengthEntryLen + 1, Len(lengths)),
                  offset + lengths[1] + ChecksumLen)

\* The store as the two saved copies hold it.
SavedStore(c) ==
    [c EXCEPT !.lengthsFile = c.savedLengths,
              !.blocksFile = c.savedBlocks,
              !.starts = StartsOf(c.savedLengths, 0),
              !.firstBlock = c.savedFirst,
              !.nextBlock = c.savedFirst + Len(c.savedLengths) \div LengthEntryLen]

\* The store holds a record that does not read back.
HoldsCorruptRecord(c) ==
    \E h \in c.firstBlock..(c.nextBlock - 1) : readBlock(c, h).tag # "ok"

\* Recoveries have run for a damaged record, none is waiting, and no call
\* ever overlapped a Reset.
RecoveriesCompleted ==
    /\ Running /\ raced = 0 /\ reset.pc = 0
    /\ ncorrupt > 0
    /\ pending = <<>>
    /\ cache.savedFirst >= 0

\* The claim read on single states: once every recovery started for a
\* corrupt record has run, the saved copies hold the corrupt record. (A Reorg
\* that drops the record before the waiting recovery runs already breaks
\* this.)
CopiesHoldCorruptRangeAfterRecoveries ==
    RecoveriesCompleted => HoldsCorruptRecord(SavedStore(cache))

\* C30 (as claimed): saved copies that hold the corrupt record still hold it
\* when every recovery started for that record has run, recoveries nested
\* through setLatestHash included: no later recovery replaces them by copies
\* of the store as it is after the cut.
C30_CopiesKeepCorruptRange ==
    [][(cache.savedFirst >= 0 /\ HoldsCorruptRecord(SavedStore(cache))
            /\ RecoveriesCompleted') =>
          HoldsCorruptRecord(SavedStore(cache'))]_vars

\* What holds of C30: each recovery copies the files as they are when it
\* runs; a recovery that finds the corrupt record in the store leaves it in
\* the copies.
RecoveryCopiesStoreAsFound ==
    [][(raced' = 0 /\ Len(pending') < Len(pending)
            /\ HoldsCorruptRecord(cache) /\ cache'.fault = "none") =>
          /\ cache'.savedLengths = cache.lengthsFile
          /\ cache'.savedBlocks = cache.blocksFile
          /\ HoldsCorruptRecord(SavedStore(cache'))]_vars
\* ------------------------------------------------ truncation and the store
\* s is the beginning of t.
IsPrefixOf(s, t) == Len(s) <= Len(t) /\ s = SubSeq(t, 1, Len(s))

\* The step is a Reorg, a recovery, or the setDbFiles of Reset.
TruncationStep ==
    \/ reset' = reset /\ ncorrupt' = ncorrupt /\ cache' # cache
          /\ last'.op \in {"Reorg", "Recover"}
    \/ reset.pc = 0 /\ reset'.pc = 1

\* The store after the step is a beginning of the store before it.
Shrinks(c, d) ==
    /\ d.firstBlock = c.firstBlock
    /\ d.nextBlock <= c.nextBlock
    /\ IsPrefixOf(d.starts, c.starts)
    /\ IsPrefixOf(d.lengthsFile, c.lengthsFile)
    /\ IsPrefixOf(d.blocksFile, c.blocksFile)

\* Reorg at or above nextBlock, and setDbFiles above it, change nothing.
NoOpAboveNextBlock(c) ==
    /\ \A h \in Heights : (h >= c.nextBlock /\ Reorg(c, h).fault = "none") =>
          Reorg(c, h) = c
    /\ \A h \in 0..(MaxHeight + MaxStart + 1) : h > c.nextBlock => setDbFiles(c, h) = c

\* C31 (as claimed): Reorg, setDbFiles and recovery never raise nextBlock and
\* never add a record: what they leave of the index and of the two files is
\* a beginning of what was there; Reorg(h) with h >= nextBlock and
\* setDbFiles(h) with h > nextBlock leave the store as it is.
C31_TruncationNeverGrows ==
    /\ [][(TruncationStep /\ cache'.fault = "none") => Shrinks(cache, cache')]_vars
    /\ [](Running => NoOpAboveNextBlock(cache))

\* What holds of C31: the same in runs where no call overlapped a Reset.
SerialTruncationNeverGrows ==
    /\ [][(raced' = 0 /\ TruncationStep /\ cache'.fault = "none") =>
             Shrinks(cache, cache')]_vars
    /\ [](Running => NoOpAboveNextBlock(cache))
\* ------------------------------------------------ the LRU cache's entries
\* The element reached from e by n steps of next.
RECURSIVE Walk(_, _, _)
Walk(l, e, n) == IF n = 0 \/ e = NilPtr THEN e ELSE Walk(l, l.next[e], n - 1)

\* At most capacity entries; the list has len elements and closes on the
\* root; index and list hold the same keys, each once, each key of the index
\* at its own element.
SameKeysOnce(l) ==
    /\ l.len <= l.capacity
    /\ Cardinality(Held(l)) = l.len
    /\ Len(ListKeys(l)) = l.len
    /\ Walk(l, root, l.len + 1) = root
    /\ {ListKeys(l)[i] : i \in 1..Len(ListKeys(l))} = Held(l)
    /\ \A k \in Held(l) : l.inlist[l.cache[k]] /\ l.entry[l.cache[k]].key = k

\* Delete(key) takes the key out and leaves the rest and its order.
DeleteEffect(l, key) ==
    LET d == LruDelete(l, key)
    IN /\ d.fault = "none"
       /\ Held(d) = Held(l) \ {key}
       /\ ListKeys(d) = SelectSeq(ListKeys(l), LAMBDA k : k # key)
       /\ \A k \in Held(d) : d.entry[d.cache[k]] = l.entry[l.cache[k]]
       /\ key \notin Held(l) => d = l
       /\ SameKeysOnce(d)

\* C32 (as claimed): whenever no call is inside the cache, it has at most
\* capacity entries and its index and its list hold the same keys, each once;
\* Delete(k) removes k alone and keeps the order of the others, and does
\* nothing when k is absent; Clear leaves the cache empty.
C32_IndexAndListAgree ==
    (LruRunning /\ Inside = {}) =>
        /\ SameKeysOnce(lru)
        /\ \A k \in Keys : DeleteEffect(lru, k)
        /\ Empty(LruClear(lru)) /\ Held(LruClear(lru)) = {}
        /\ lruLast.op = "Delete" => lruLast.key \notin Held(lru)
        /\ lruLast.op = "Clear" => Empty(lru) /\ Held(lru) = {}

\* What holds of C32: the same in runs where no Get overlapped another.
SerialIndexAndListAgree ==
    LruSerial =>
        /\ SameKeysOnce(lru)
        /\ \A k \in Keys : DeleteEffect(lru, k)
        /\ Empty(LruClear(lru)) /\ Held(LruClear(lru)) = {}
        /\ lruLast.op = "Delete" => lruLast.key \notin Held(lru)
        /\ lruLast.op = "Clear" => Empty(lru) /\ Held(lru) = {}
\* ------------------------------------------- the frontier and its leaves
\* The transactions of the frontier's leaves, in order.
LeafValues(m) == [i \in 1..Len(m.Leaves) |-> m.Leaves[i].Value]

\* C33: after every AddTransaction and every AddBlock the root is the root of
\* the tree over all the leaves in order; a frontier that got the same leaves
\* in one AddBlock is the same frontier, with the same root; and AddBlock of
\* a list is the leaves and the root of AddTransaction on each element in
\* turn.
C33_RootIsTreeOfLeaves ==
    /\ mf.Root = buildTree(mf.Leaves)
    /\ AddBlock(NewMerkleFrontier, LeafValues(mf)) = mf
    /\ mfLast.op \in {"AddTransaction", "AddBlock"} =>
          /\ Len(mf.Leaves) >= Len(mfLast.before.Leaves)
          /\ SubSeq(mf.Leaves, 1, Len(mfLast.before.Leaves)) = mfLast.before.Leaves
    /\ \A txs \in BlockTxs :
          LET b == AddBlock(mf, txs)
          IN /\ LeafValues(b) = LeafValues(mf) \o txs
             /\ b.Root = buildTree(b.Leaves)
             /\ Len(txs) = 2 =>
                   b = AddTransaction(AddTransaction(mf, txs[1]), txs[2])
             /\ Len(txs) = 1 => b = AddTransaction(mf, txs[1])
             /\ Len(txs) = 0 => b = mf

\* An AddBlock of two transactions onto one leaf, then read as three leaves.
C33_Witness ==
    /\ mfLast.op = "AddBlock"
    /\ Len(mfLast.before.Leaves) = 1
    /\ Len(mf.Leaves) = 3
    /\ ~mf.Root.nil /\ mf.Root # mfLast.before.Root
\* --------------------------------------- /merkle/sync: what is an error
\* A server error: status 500, nothing of the tree or the snapshot sent, the
\* tree row read at most once and the snapshots not at all.
ServerError(resp) ==
    /\ resp.status = StatusInternalServerError
    /\ resp.Deltas = <<>> /\ resp.Proof = <<>> /\ resp.Frontier = <<>>
    /\ ~resp.Incremental
    /\ Len(resp.reads) <= 1
    /\ \A i \in 1..Len(resp.reads) : resp.reads[i] = "merkle_tree"

\* A response without snapshot.
AnsweredWithoutSnapshot(resp) ==
    /\ resp.status = StatusOK
    /\ resp.Frontier = <<>>
    /\ ~resp.Incremental

\* The requests whose paging stays within int (see C25).
WithinInt(req) ==
    \/ Atoi(req.page).err \/ Atoi(req.pageSize).err
    \/ Atoi(req.page).n * Atoi(req.pageSize).n + Atoi(req.pageSize).n <= MaxInt

\* C34 (as claimed): when the server tree does not load (no connection, no
\* row, a row that does not decode into a tree) the handler answers with a
\* server error, sends no deltas, proofs or snapshot and does not try again;
\* when the tree loads and the snapshot is absent or its query fails, the
\* handler still answers, without snapshot and with the flag false.
C34_TreeFailureIsErrorSnapshotIsNot ==
    \A req \in Requests, fails \in QueryFailures :
        QueryGet(req.root) # <<>> =>
            /\ LoadServerMerkleTree(db, fails.tree).err # "" =>
                  ServerError(MerkleSyncHandler(db, req, fails))
            /\ (LoadServerMerkleTree(db, fails.tree).err = "" /\ WithinInt(req)
                   /\ (fails.frontier \/ ~SnapshotExists(db) \/ ~db.conn)) =>
                  AnsweredWithoutSnapshot(MerkleSyncHandler(db, req, fails))

\* What holds of C34: the same for every row that json.Unmarshal rejects or
\* that holds a tree as UpdateMerkleTreeInDB writes it.
TreeFailureIsErrorForWrittenRows ==
    (db.tree.present /\ IsObject(db.tree.data) =>
            ~NewMerkleTreeFromData(db.tree.data).panic) =>
        C34_TreeFailureIsErrorSnapshotIsNot
\* ------------------------------------------- the rounds of a recovery
\* setDbFiles up to its call of setLatestHash: the files cut, nextBlock set.
TruncateTo(c, height) ==
    LET h == IF height < c.firstBlock THEN c.firstBlock ELSE height
        index == h - c.firstBlock
        c1 == [c EXCEPT !.lengthsFile = Truncate(@, index * LengthEntryLen)]
    IN IF index + 1 > Len(c1.starts) THEN [c1 EXCEPT !.fault = "panic"]
       ELSE [Reslice([c1 EXCEPT !.blocksFile = Truncate(@, c1.starts[index + 1])],
                     index + 1)
                EXCEPT !.nextBlock = h, !.latestHash = Nil]

\* setLatestHash finds the last block unreadable and calls
\* recoverFromCorruption once more.
RecoversAgain(c) ==
    /\ c.fault = "none"
    /\ c.nextBlock > c.firstBlock
    /\ readBlock(c, c.nextBlock - 1).tag = "nil"

\* The stores at the end of the truncation of each round of
\* recoverFromCorruption(height), the nested rounds included, as far as fuel
\* rounds.
RECURSIVE RecoveryRounds(_, _, _)
RecoveryRounds(c, height, fuel) ==
    IF c.fault # "none" \/ height > c.nextBlock \/ fuel = 0 THEN <<>>
    ELSE LET t == TruncateTo(c, height)
         IN <<t>> \o (IF RecoversAgain(t)
                        THEN RecoveryRounds(t, t.nextBlock - RollbackDistance, fuel - 1)
                        ELSE <<>>)

\* One record more than a store can hold.
MaxRounds == MaxAdds + 2

\* The store with the last byte of the record of every height of S flipped.
RECURSIVE CorruptAll(_, _)
CorruptAll(c, S) ==
    IF S = {} THEN c
    ELSE LET h == CHOOSE x \in S : TRUE
         IN CorruptAll([c EXCEPT !.blocksFile[RecordTo(c, h)] = Flip(@)], S \ {h})

\* recoverFromCorruption(height) on the store c ends, every nested round
\* with nextBlock lower than the round before, the last round at the latest
\* with the store empty; the call returns (the lock is released) and leaves
\* the files as the last round cut them.
RecoveryEnds(c, height) ==
    LET rounds == RecoveryRounds(c, height, MaxRounds)
        n == Len(rounds)
        d == recoverFromCorruption(c, height)
    IN /\ n < MaxRounds
       /\ \A i \in 1..n : rounds[i].fault = "none"
       /\ \A i \in 2..n :
             /\ rounds[i].nextBlock < rounds[i - 1].nextBlock
             /\ rounds[i].nextBlock >= c.firstBlock
       /\ n > 0 => ~RecoversAgain(rounds[n])
       /\ d.fault = "none"
       /\ n > 0 => /\ d.nextBlock = rounds[n].nextBlock
                   /\ d.lengthsFile = rounds[n].lengthsFile
                   /\ d.blocksFile = rounds[n].blocksFile
                   /\ d.starts = rounds[n].starts
       /\ n = 0 => SameStore(d, c)

IndexedHeights(c) == {h \in Retained(c) : Indexed(c, h)}

\* Every set of records of the store corrupt, every height: the recovery
\* ends.
EveryRecoveryEnds(c) ==
    \A S \in SUBSET IndexedHeights(c) :
        \A h \in (-1)..(MaxHeight + 1) : RecoveryEnds(CorruptAll(c, S), h)

\* C35 (as claimed): every recovery that runs returns, and from every store
\* that the calls leave, for every set of its records corrupt and every
\* height, recoverFromCorruption ends as RecoveryEnds says.
C35_RecoveryTerminates ==
    /\ [][Len(pending') < Len(pending) => cache'.fault = "none"]_vars
    /\ []((Running /\ raced = 0 /\ reset.pc = 0) => EveryRecoveryEnds(cache))

\* What holds of C35: the same for the recoveries of runs where no call
\* overlapped a Reset.
SerialRecoveryTerminates ==
    /\ [][(raced' = 0 /\ Len(pending') < Len(pending)) => cache'.fault = "none"]_vars
    /\ []((Running /\ raced = 0 /\ reset.pc = 0) => EveryRecoveryEnds(cache))

\* A store with two records, both corrupt, that the pending recovery empties
\* in two rounds.
C35_Witness ==
    /\ Running /\ raced = 0 /\ reset.pc = 0
    /\ \E S \in SUBSET IndexedHeights(cache), h \in Heights :
          /\ Cardinality(S) >= 2
          /\ Len(RecoveryRounds(CorruptAll(cache, S), h, MaxRounds)) >= 2

\* ------------------------------------------- the bounds of a page
\* s is deltas[i:j] for some 0 <= i <= j <= len(deltas).
IsSubSlice(s, deltas) ==
    \E i \in 0..Len(deltas), j \in 0..Len(deltas) :
        i <= j /\ s = SubSeq(deltas, i + 1, j)

\* PaginateDeltas returns a slice of the list for the page and the size.
InRange(deltas, page, pageSize) ==
    LET r == PaginateDeltas(deltas, page, pageSize)
    IN ~r.panic /\ IsSubSlice(r.deltas, deltas)

\* page * pageSize + pageSize is an int.
EndWithinInt(page, pageSize) == page * pageSize + pageSize <= MaxInt

\* The request names a page >= 0 and a pageSize > 0.
GivesPaging(req) ==
    /\ ~Atoi(req.page).err /\ Atoi(req.page).n >= 0
    /\ ~Atoi(req.pageSize).err /\ Atoi(req.pageSize).n > 0

\* C36 (as claimed): for every page >= 0 and pageSize > 0 that an int holds,
\* those whose product or end position wraps around included, PaginateDeltas
\* returns a sub-slice of the delta list, which may be empty, and does not
\* fail with a slice out of range; a request with such a page and size is
\* answered.
C36_PageNeverOutOfRange ==
    /\ Loads(db) =>
          \A r \in ClientRoots, page \in Pages, pageSize \in PageSizes :
              InRange(FullDeltas(db, r), page, pageSize)
    /\ (Served /\ Loads(sync.before) /\ GivesPaging(sync.req)) =>
          sync.resp.status # Panicked

\* What holds of C36: the same for the pages and sizes whose end position is
\* an int.
PageInRangeWithinInt ==
    Loads(db) =>
        \A r \in ClientRoots, page \in Pages, pageSize \in PageSizes :
            EndWithinInt(page, pageSize) => InRange(FullDeltas(db, r), page, pageSize)

\* ------------------------------------------- the slice GetLatestHash returns
\* GetLatestHash returns c.latestHash itself, a slice that shares its array
\* with the cache. Add copies the new hash into that array unless latestHash
\* was nil; these are the bytes the caller reads through the slice once
\* Add(height, block) has returned.
ObtainedAfterAdd(c, height, block) ==
    LET got == GetLatestHash(c)
    IN IF got = Nil \/ Add(c, height, block).ret # "stored" THEN got
       ELSE Copy(got, block.Hash)

\* Reorg and the recovery end in setLatestHash, which sets latestHash to nil
\* and makes a new array for the hash it reads: the array the caller holds is
\* not written.
ObtainedAfterSetLatestHash(c) == GetLatestHash(c)

\* C37 (as claimed): the bytes a caller obtained from GetLatestHash are the
\* same after any later Add, Reorg or recovery; the caller never reads the
\* hash of a block newer than the tip at the time of its call.
C37_LatestHashIsSnapshot ==
    Running =>
        /\ \A h \in Heights, b \in Blocks :
              ObtainedAfterAdd(cache, h, b) = GetLatestHash(cache)
        /\ ObtainedAfterSetLatestHash(cache) = GetLatestHash(cache)

\* What holds of C37: an Add leaves the obtained bytes alone when it stores
\* nothing or the cache had no latest hash, and otherwise the caller reads
\* the cache's new latest hash; Reorg and recovery leave them alone.
ObtainedFollowsAdd ==
    Running =>
        /\ \A h \in Heights, b \in Blocks :
              LET r == Add(cache, h, b)
              IN ObtainedAfterAdd(cache, h, b) =
                     IF r.ret = "stored" /\ GetLatestHash(cache) # Nil
                       THEN GetLatestHash(r.c)
                       ELSE GetLatestHash(cache)
        /\ ObtainedAfterSetLatestHash(cache) = GetLatestHash(cache)

\* ------------------------------------------- NewBlockCache on existing files
\* The shortest and the longest block NewBlockCache accepts in a length
\* entry. The code's 74 is scaled to the blocks of the model, whose
\* marshalled form has 3 to 6 bytes.
MinBlockLength == 3

MaxBlockLength == 4000000

\* binary.LittleEndian.Uint32 of a length entry; a value with the fourth
\* byte set is above every length the code accepts and stands as 2^24.
Uint32(e) ==
    IF e[4] # 0 THEN 16777216 ELSE e[1] + 256 * e[2] + 65536 * e[3]

\* The loop of NewBlockCache over the entries of lengths from entry i on
\* (i counts from 0). The test len(lengths[:4]) < 4 is never true inside the
\* loop, which runs len(lengths)/4 times.
RECURSIVE LoadLengths(_, _, _)
LoadLengths(c, lengths, i) ==
    IF c.fault # "none" \/ i >= Len(lengths) \div LengthEntryLen THEN c
    ELSE LET length == Uint32(SubSeq(lengths, i * LengthEntryLen + 1,
                                     (i + 1) * LengthEntryLen))
         IN IF length < MinBlockLength \/ length > MaxBlockLength
              THEN recoverFromCorruption(c, c.nextBlock)
            ELSE LET offset == c.starts[Len(c.starts)] + length + ChecksumLen
                     c1 == AppendStart(c, offset)
                     r == readBlock(c1, c1.nextBlock)
                 IN IF r.tag = "panic" THEN [c1 EXCEPT !.fault = "panic"]
                    ELSE IF r.tag = "nil" THEN recoverFromCorruption(c1, c1.nextBlock)
                    ELSE LoadLengths([c1 EXCEPT !.nextBlock = @ + 1], lengths, i + 1)

\* NewBlockCache on a directory that holds the two db files.
NewBlockCacheOnFiles(lengthsFile, blocksFile, startHeight, syncFromHeight) ==
    LET c == [NewBlockCache(startHeight) EXCEPT !.lengthsFile = lengthsFile,
                                                !.blocksFile = blocksFile]
        from == IF syncFromHeight < startHeight THEN startHeight ELSE syncFromHeight
        lengths == IF syncFromHeight >= 0
                      /\ (from - startHeight) * LengthEntryLen < Len(lengthsFile)
                     THEN SubSeq(lengthsFile, 1, (from - startHeight) * LengthEntryLen)
                     ELSE lengthsFile
        loaded == LoadLengths(c, lengths, 0)
    IN setDbFiles(loaded, loaded.nextBlock)

\* The files a start can find, given the files of a store: the files
\* themselves, the lengths file with half an entry more, with a length of
\* zero or a length above every block in one entry, and the blocks file with
\* a record more than the lengths file counts.
FoundLengths(lengthsFile) ==
    {lengthsFile, lengthsFile \o <<1>>}
    \cup {[lengthsFile EXCEPT ![k * LengthEntryLen + 1] = 0] :
             k \in 0..(Len(lengthsFile) \div LengthEntryLen - 1)}
    \cup {[lengthsFile EXCEPT ![(k + 1) * LengthEntryLen] = 1] :
             k \in 0..(Len(lengthsFile) \div LengthEntryLen - 1)}

FoundBlocks(c) ==
    {c.blocksFile,
     c.blocksFile \o Record(c.nextBlock, [Height |-> c.nextBlock, Hash |-> <<1>>])}

SyncFromHeights == (-1)..(MaxHeight + 1)

\* The position in the blocks file of the record of entry k (from 0) of a
\* lengths file.
RECURSIVE OffsetOf(_, _)
OffsetOf(lengthsFile, k) ==
    IF k = 0 THEN 0
    ELSE OffsetOf(lengthsFile, k - 1) + ChecksumLen +
             Uint32(SubSeq(lengthsFile, (k - 1) * LengthEntryLen + 1, k * LengthEntryLen))

\* Entry k of the lengths file is a possible length and the record it
\* counts is whole in the blocks file, with its checksum, and decodes to a
\* block of height startHeight + k.
GoodRecord(lengthsFile, blocksFile, startHeight, k) ==
    /\ (k + 1) * LengthEntryLen <= Len(lengthsFile)
    /\ LET length == Uint32(SubSeq(lengthsFile, k * LengthEntryLen + 1,
                                   (k + 1) * LengthEntryLen))
           from == OffsetOf(lengthsFile, k)
           b == SubSeq(blocksFile, from + ChecksumLen + 1, from + ChecksumLen + length)
       IN /\ length >= MinBlockLength /\ length <= MaxBlockLength
          /\ from + ChecksumLen + length <= Len(blocksFile)
          /\ checksum(startHeight + k, b) = SubSeq(blocksFile, from + 1, from + ChecksumLen)
          /\ ~Unmarshal(b).err
          /\ Unmarshal(b).block.Height = startHeight + k

\* What the claim says of the cache d that NewBlockCache returns for the
\* files found.
LoadedAsClaimed(d, lengthsFile, blocksFile, startHeight, syncFromHeight) ==
    LET n == d.nextBlock - d.firstBlock
    IN /\ d.fault = "none"
       /\ d.firstBlock = startHeight /\ n >= 0
       /\ \A k \in 0..(n - 1) :
             /\ GoodRecord(lengthsFile, blocksFile, startHeight, k)
             /\ readBlock(d, startHeight + k).tag = "ok"
       /\ IsPrefixOf(d.lengthsFile, lengthsFile)
       /\ Len(d.lengthsFile) = n * LengthEntryLen
       /\ Len(d.starts) = n + 1
       /\ \A k \in 0..n : d.starts[k + 1] = OffsetOf(lengthsFile, k)
       /\ Len(d.blocksFile) = OffsetOf(lengthsFile, n)
       /\ IsPrefixOf(d.blocksFile, blocksFile)
       /\ syncFromHeight >= 0 => d.nextBlock <= Max(syncFromHeight, startHeight)

\* The number of records from entry k on up to the first that is not good.
RECURSIVE GoodPrefix(_, _, _, _)
GoodPrefix(lengthsFile, blocksFile, startHeight, k) ==
    IF GoodRecord(lengthsFile, blocksFile, startHeight, k)
      THEN 1 + GoodPrefix(lengthsFile, blocksFile, startHeight, k + 1)
      ELSE 0

\* The records a start is to keep: those before the first impossible length
\* entry or unreadable record, and with syncFromHeight >= 0 those below
\* max(syncFromHeight, startHeight).
KeptRecords(lengthsFile, blocksFile, startHeight, syncFromHeight) ==
    LET good == GoodPrefix(lengthsFile, blocksFile, startHeight, 0)
    IN IF syncFromHeight >= 0
         THEN Min(good, Max(syncFromHeight, startHeight) - startHeight)
         ELSE good

\* C38 (as claimed): NewBlockCache on the files of a store, as they are or
\* damaged, rebuilds the index from the lengths file: it returns a cache
\* whose records are all whole, with matching checksum and height, and are
\* the records before the first impossible length entry or unreadable
\* record; the lengths file holds nextBlock - firstBlock entries; the blocks
\* file ends at the offset of nextBlock, so a record written without its
\* length entry is cut off; and with syncFromHeight >= 0,
\* nextBlock <= max(syncFromHeight, startHeight).
C38_LoadKeepsVerifiedPrefix ==
    Running =>
        \A lengthsFile \in FoundLengths(cache.lengthsFile),
           blocksFile \in FoundBlocks(cache),
           startHeight \in StartHeights, syncFromHeight \in SyncFromHeights :
            LET d == NewBlockCacheOnFiles(lengthsFile, blocksFile, startHeight,
                                          syncFromHeight)
            IN /\ LoadedAsClaimed(d, lengthsFile, blocksFile, startHeight,
                                  syncFromHeight)
               /\ d.nextBlock - d.firstBlock =
                      KeptRecords(lengthsFile, blocksFile, startHeight, syncFromHeight)

\* What holds of C38: everything but the records kept. No record at or after
\* the first damaged one is kept, the records kept are whole and verified,
\* and files and index end at nextBlock.
LoadDropsDamage ==
    Running =>
        \A lengthsFile \in FoundLengths(cache.lengthsFile),
           blocksFile \in FoundBlocks(cache),
           startHeight \in StartHeights, syncFromHeight \in SyncFromHeights :
            LoadedAsClaimed(
                NewBlockCacheOnFiles(lengthsFile, blocksFile, startHeight, syncFromHeight),
                lengthsFile, blocksFile, startHeight, syncFromHeight)

\* NewBlockCache keeps no record of the files it finds: inside the loop
\* readBlock asks blockLength for the height nextBlock, which is not yet
\* below nextBlock, and gets 0.
LoadKeepsNothing ==
    Running =>
        \A lengthsFile \in FoundLengths(cache.lengthsFile),
           blocksFile \in FoundBlocks(cache),
           startHeight \in StartHeights, syncFromHeight \in SyncFromHeights :
            LET d == NewBlockCacheOnFiles(lengthsFile, blocksFile, startHeight,
                                          syncFromHeight)
            IN d.nextBlock = d.firstBlock

\* ------------------------------------------- one root, one leaf sequence
\* The root of a frontier that was given the transactions of txs in order.
RootOf(txs) == GetRoot(AddBlock(NewMerkleFrontier, txs))

\* C39 (as claimed): with H free of collisions, a leaf sequence other than
\* the one the frontier was given never has the frontier's root: the root
\* fixes the number of the leaves, where each leaf begins and ends, and
\* which values are leaves.
C39_RootFixesLeafSequence ==
    \A txs \in BlockTxs :
        txs # LeafValues(mf) => RootOf(txs) # GetRoot(mf)

\* Every transaction of txs is one character long.
OneCharEach(txs) == \A i \in 1..Len(txs) : Len(txs[i]) = 1

\* What holds of C39: the same among the leaf sequences whose transactions
\* all have one length (one character), none of them a digest.
RootFixesSequenceOfEqualLengthLeaves ==
    OneCharEach(LeafValues(mf)) =>
        \A txs \in BlockTxs :
            (OneCharEach(txs) /\ txs # LeafValues(mf)) => RootOf(txs) # GetRoot(mf)

\* ------------------------------------------- GetLiteWalletBlockGroup
\* The payload bytes a group is to reach. The code's 4000000 is scaled to
\* the blocks of the model (3 to 6 bytes), so that a group can end before
\* the last block as well as at it.
targetLength == 4

\* The loop of GetLiteWalletBlockGroup: the height it ends at, or a panic of
\* blockLength.
RECURSIVE GroupEnd(_, _, _)
GroupEnd(c, height, groupLength) ==
    IF ~(groupLength < targetLength) THEN [panic |-> FALSE, height |-> height]
    ELSE LET bl == blockLength(c, height)
         IN IF bl.panic THEN [panic |-> TRUE, height |-> height]
            ELSE IF height + 1 >= c.nextBlock
              THEN [panic |-> FALSE, height |-> height]
              ELSE GroupEnd(c, height + 1, groupLength + bl.len)

NoBlockID == [Height |-> -1, Hash |-> <<>>]

\* GetLiteWalletBlockGroup: tag "nil", tag "id" with the block id (its hash
\* is make([]byte, len(block.Hash)), zero bytes), or tag "panic": block.Hash
\* is read without a test of block, which readBlock returns as nil for a
\* record it cannot read.
GetLiteWalletBlockGroup(c, height) ==
    IF height < c.firstBlock \/ height >= c.nextBlock
      THEN [tag |-> "nil", id |-> NoBlockID]
    ELSE LET end == GroupEnd(c, height, 0)
             r == readBlock(c, end.height)
         IN IF end.panic \/ r.tag # "ok" THEN [tag |-> "panic", id |-> NoBlockID]
            ELSE [tag |-> "id",
                  id |-> [Height |-> end.height, Hash |-> Zeros(Len(r.block.Hash))]]

GroupHeights == (-1)..(MaxHeight + 1)

NoReset == raced = 0 /\ reset.pc = 0

\* C40 (as claimed): GetLiteWalletBlockGroup(h) returns nil for h outside
\* [firstBlock, nextBlock) and otherwise a block id of a height h' with
\* h <= h' < nextBlock, or nil when the record at h' cannot be read; it never
\* crashes on a record that is absent. (Stated for the stores no Reset has
\* run into.)
C40_GroupNeverDereferencesNil ==
    (Running /\ NoReset) =>
        \A h \in GroupHeights :
            LET r == GetLiteWalletBlockGroup(cache, h)
            IN /\ r.tag # "panic"
               /\ (h < cache.firstBlock \/ h >= cache.nextBlock) => r.tag = "nil"
               /\ (cache.firstBlock <= h /\ h < cache.nextBlock) =>
                     \/ r.tag = "id" /\ h <= r.id.Height /\ r.id.Height < cache.nextBlock
                     \/ /\ r.tag = "nil"
                        /\ readBlock(cache, GroupEnd(cache, h, 0).height).tag = "nil"

\* What holds of C40: nil outside the range, and inside it a block id of a
\* height h' with h <= h' < nextBlock whenever the record at the height the
\* loop ends at can be read.
GroupOfReadableRecord ==
    (Running /\ NoReset) =>
        \A h \in GroupHeights :
            LET r == GetLiteWalletBlockGroup(cache, h)
                end == GroupEnd(cache, h, 0)
            IN /\ (h < cache.firstBlock \/ h >= cache.nextBlock) => r.tag = "nil"
               /\ (cache.firstBlock <= h /\ h < cache.nextBlock) =>
                     /\ ~end.panic
                     /\ h <= end.height /\ end.height < cache.nextBlock
                     /\ readBlock(cache, end.height).tag = "ok" =>
                           /\ r.tag = "id" /\ r.id.Height = end.height
                           /\ Len(r.id.Hash) = Len(StoredHash(cache, end.height))
                     /\ readBlock(cache, end.height).tag # "ok" => r.tag = "panic"

\* A group that ends before the last block of the store.
GroupEndsEarly ==
    /\ Running /\ NoReset
    /\ \E h \in Heights :
          /\ GetLiteWalletBlockGroup(cache, h).tag = "id"
          /\ GetLiteWalletBlockGroup(cache, h).id.Height < cache.nextBlock - 1
====
